---- MODULE Spec2Model ----
(***************************************************************************)
(* Model of the persisted (knex) variant of my-social-backend: the auth,   *)
(* friends and posts routers and the relational store they query.          *)
(* Every `await db(...)` of a handler is one atomic store query; the code  *)
(* between two awaits runs without interruption (single-threaded event     *)
(* loop), so a handler is a chain of actions, one per await, and two       *)
(* handlers in flight interleave at their awaits.                          *)
(***************************************************************************)
EXTENDS Integers, Sequences, FiniteSets, Bags, TLC

\* ---------------------------------------------------------------- bounds
MaxCalls == 3         \* requests started in one behaviour of the likes
MaxFriendCalls == 3   \* requests started in one behaviour of the friend requests
MaxAuthCalls == 3     \* requests started in one behaviour of the registrations

\* The slots of requests in flight: two requests can overlap
Procs == {1, 2}

\* ---------------------------------------------------------------- strings
\* A string is a sequence of one-character strings.
UpperChars == <<"A", "B", "N", "O">>
LowerChars == <<"a", "b", "n", "o">>

\* String.prototype.toLowerCase, one character
lowerChar(c) ==
  IF \E i \in 1..Len(UpperChars) : UpperChars[i] = c
  THEN LowerChars[CHOOSE i \in 1..Len(UpperChars) : UpperChars[i] = c]
  ELSE c

toLowerCase(s) == [i \in 1..Len(s) |-> lowerChar(s[i])]

\* String.prototype.trim: drops the leading and the trailing white space
RECURSIVE trimStart(_)
trimStart(s) == IF s # <<>> /\ Head(s) = " " THEN trimStart(Tail(s)) ELSE s

RECURSIVE trimEnd(_)
trimEnd(s) ==
  IF s # <<>> /\ s[Len(s)] = " " THEN trimEnd(SubSeq(s, 1, Len(s) - 1)) ELSE s

trim(s) == trimEnd(trimStart(s))

Digits == <<"0", "1", "2", "3", "4", "5", "6", "7", "8", "9">>
isDigit(c) == \E i \in 1..10 : Digits[i] = c
digitVal(c) == (CHOOSE i \in 1..10 : Digits[i] = c) - 1

\* parseInt(value, 10): after leading white space and an optional sign, the
\* longest prefix of decimal digits; NaN when there is none
RECURSIVE digitPrefix(_, _)
digitPrefix(s, acc) ==
  IF s # <<>> /\ isDigit(Head(s))
  THEN digitPrefix(Tail(s), acc * 10 + digitVal(Head(s)))
  ELSE acc

NaN == [nan |-> TRUE, val |-> 0]
Num(n) == [nan |-> FALSE, val |-> n]

parseInt(s) ==
  LET t == trimStart(s)
      signed == t # <<>> /\ Head(t) \in {"-", "+"}
      d == IF signed THEN Tail(t) ELSE t
  IN IF d # <<>> /\ isDigit(Head(d))
     THEN Num(IF signed /\ Head(t) = "-" THEN 0 - digitPrefix(d, 0)
              ELSE digitPrefix(d, 0))
     ELSE NaN

\* String(n) of an integer: its decimal digits
RECURSIVE digitsOf(_)
digitsOf(n) ==
  IF n < 10 THEN <<Digits[n + 1]>>
  ELSE digitsOf(n \div 10) \o <<Digits[(n % 10) + 1]>>

String(n) == IF n < 0 THEN <<"-">> \o digitsOf(0 - n) ELSE digitsOf(n)

\* ---------------------------------------------------------------- state
VARIABLES
  users,              \* table users: rows [id, username, password_hash, profile_image, status]
  friendships,        \* table friendships: rows [id, user_id, friend_user_id, status, mutual_friends]
  friend_suggestions, \* table friend_suggestions
  friend_requests,    \* table friend_requests: rows [id, sender_user_id, receiver_user_id, mutual_friends, status, created_at]
  posts,              \* table posts: rows [id, user_id, text, created_at]
  comments,           \* table comments: rows [id, post_id, user_id, text, created_at]
  post_likes,         \* table post_likes: a bag of rows [post_id, user_id, created_at]
  comment_likes,      \* table comment_likes: a bag of rows [comment_id, user_id, created_at]
  now,                \* the wall clock (new Date())
  req,                \* req[p]: the request handled in slot p, its locals and its response
  calls,              \* requests started so far
  hist                \* history: the store before the requests now in flight, and the request before them

tables == <<users, friendships, friend_suggestions, friend_requests, posts,
            comments, post_likes, comment_likes>>
vars == <<users, friendships, friend_suggestions, friend_requests, posts,
          comments, post_likes, comment_likes, now, req, calls, hist>>

\* The whole store, as one value
Store ==
  [users |-> users, friendships |-> friendships,
   friend_suggestions |-> friend_suggestions,
   friend_requests |-> friend_requests, posts |-> posts,
   comments |-> comments, post_likes |-> post_likes,
   comment_likes |-> comment_likes]

EmptyStore ==
  [users |-> {}, friendships |-> {}, friend_suggestions |-> {},
   friend_requests |-> {}, posts |-> {}, comments |-> {},
   post_likes |-> EmptyBag, comment_likes |-> EmptyBag]

NoUser == [id |-> 0, username |-> <<>>]

\* A query parameter: absent (undefined), or the string given
Absent == [present |-> FALSE, s |-> <<>>]
Given(s) == [present |-> TRUE, s |-> s]

\* A token: the payload jwt.sign writes and the signature over it
NoToken == [sub |-> 0, username |-> <<>>, iat |-> 0, exp |-> 0, sig |-> "none"]

\* The Authorization header: absent, or the characters before the token and the token
NoHeader == [present |-> FALSE, s |-> <<>>, token |-> NoToken]

\* The locals of GET /posts: the page of post rows, the like counts, the
\* viewer's likes, the comment rows, their like counts and the viewer's likes
NoFeed ==
  [postRows |-> <<>>, postLikeCounts |-> <<>>, postLikedByUser |-> {},
   commentRows |-> <<>>, commentLikeCounts |-> <<>>,
   commentLikedByUser |-> {}]

\* A slot with no request
IdleReq ==
  [pc |-> "idle", op |-> "none", auth |-> NoHeader, at |-> 0, user |-> NoUser,
   postId |-> <<>>, commentId |-> <<>>, username |-> <<>>,
   password |-> <<>>, text |-> <<>>, trimmedText |-> <<>>, type |-> Absent,
   limit |-> Absent, offset |-> Absent, limitNum |-> NaN, offsetNum |-> NaN,
   numericPostId |-> 0, numericCommentId |-> 0, normalized |-> <<>>,
   targetUser |-> NoUser, existing |-> FALSE, liked |-> FALSE,
   createdAt |-> 0, aggregated |-> <<>>, statusFilter |-> Absent,
   search |-> Absent, total |-> 0, feed |-> NoFeed, status |-> 0,
   body |-> [code |-> "none"]]

NoPrev == [valid |-> FALSE, call |-> IdleReq, base |-> EmptyStore]

\* a handler that is running: not one that has answered, nor one that died
InFlight(p) == req[p].pc \notin {"idle", "done", "crashed"}
Quiescent(p) == \A q \in Procs \ {p} : ~InFlight(q)

\* res.status(s).json(b): the response ends the handler
respond(r, s, b) == [r EXCEPT !.pc = "done", !.status = s, !.body = b]

errorBody(code) == [code |-> code]

\* ---------------------------------------------------------------- store
MaxOf(S) == IF S = {} THEN 0 ELSE CHOOSE m \in S : \A x \in S : x <= m

\* increments('id'): the next value of an autoincrement key
nextId(table) == MaxOf({row.id : row \in table}) + 1

\* rows of a bag-table that satisfy a where clause
RowsWhere(bag, P(_)) == {row \in BagToSet(bag) : P(row)}

\* count(*) over the rows of a bag-table that satisfy a where clause
RECURSIVE SumCopies(_, _)
SumCopies(bag, S) ==
  IF S = {} THEN 0
  ELSE LET row == CHOOSE x \in S : TRUE
       IN CopiesIn(row, bag) + SumCopies(bag, S \ {row})

CountWhere(bag, P(_)) == SumCopies(bag, RowsWhere(bag, P))

\* del() over the rows of a bag-table that satisfy a where clause
RECURSIVE RemoveAll(_, _)
RemoveAll(bag, S) ==
  IF S = {} THEN bag
  ELSE LET row == CHOOSE x \in S : TRUE
       IN RemoveAll([r \in (DOMAIN bag) \ {row} |-> bag[r]], S \ {row})

DeleteWhere(bag, P(_)) == RemoveAll(bag, RowsWhere(bag, P))

\* ---------------------------------------------------------------- requests
\* The history kept when slot p starts a request: a request that starts while
\* no other is in flight opens a new epoch, whose base is the store it finds;
\* the epoch before it is remembered when it was one request running alone.
histAtStart(p) ==
  IF Quiescent(p)
  THEN [base |-> Store, procs |-> {p}, n |-> 1,
        prev |-> IF hist.n = 1 /\ \E q \in Procs :
                                    hist.procs = {q} /\ req[q].pc \in {"done", "crashed"}
                 THEN [valid |-> TRUE,
                       call |-> req[CHOOSE q \in Procs : hist.procs = {q}],
                       base |-> hist.base]
                 ELSE NoPrev]
  ELSE [base |-> hist.base, procs |-> hist.procs \cup {p}, n |-> hist.n + 1,
        prev |-> NoPrev]

\* Slot p receives a request; r is the slot after the synchronous head of the handler
begin(p, r) ==
  /\ ~InFlight(p)
  /\ calls' = calls + 1
  /\ hist' = histAtStart(p)
  /\ req' = [req EXCEPT ![p] = r]

\* requireAuth: a verified token yields the id and the username of a user
Identities == {[id |-> u.id, username |-> u.username] : u \in users}

\* ---------------------------------------------------------------- POST /posts/:postId/like
\* the head of the handler, up to its first await
TogglePostLike_head(user, postId) ==
  LET r == [IdleReq EXCEPT !.op = "TogglePostLike", !.user = user,
                           !.postId = postId,
                           !.numericPostId = parseInt(postId).val]
  IN IF parseInt(postId).nan
     THEN respond(r, 404, errorBody("not_found"))
     ELSE [r EXCEPT !.pc = "like_findPost"]

TogglePostLike(p, user, postId) ==
  /\ begin(p, TogglePostLike_head(user, postId))
  /\ UNCHANGED <<tables, now>>

\* mutant: the where clause without user_id
postLikesOf_anyUser(likes, postId, userId) ==
  RowsWhere(likes, LAMBDA row : row.post_id = postId)

\* db('post_likes').where({ post_id, user_id }): the rows the where clause selects
postLikesOf(likes, postId, userId) ==
  RowsWhere(likes, LAMBDA row : row.post_id = postId /\ row.user_id = userId)

\* mutant: the delete without user_id
unlikePost_everyUser(likes, postId, userId) ==
  DeleteWhere(likes, LAMBDA row : row.post_id = postId)

\* db('post_likes').where({ post_id, user_id }).del()
unlikePost(likes, postId, userId) ==
  DeleteWhere(likes, LAMBDA row : row.post_id = postId /\ row.user_id = userId)

\* db('post_likes').where({ post_id }).count({ count: '*' })
countPostLikes(likes, postId) ==
  CountWhere(likes, LAMBDA row : row.post_id = postId)

\* mutant: a key on post_id alone
postLikeKeyTaken_postOnly(likes, row) ==
  \E old \in BagToSet(likes) : old.post_id = row.post_id

\* table.primary(['post_id', 'user_id']): the insert the key rejects
postLikeKeyTaken(likes, row) ==
  \E old \in BagToSet(likes) :
      old.post_id = row.post_id /\ old.user_id = row.user_id

\* const post = await db('posts').where({ id }).first()
TogglePostLike_findPost(p) ==
  /\ req[p].pc = "like_findPost"
  /\ req' = [req EXCEPT ![p] =
       IF \E post \in posts : post.id = req[p].numericPostId
       THEN [@ EXCEPT !.pc = "like_findExisting"]
       ELSE respond(@, 404, errorBody("not_found"))]
  /\ UNCHANGED <<tables, now, calls, hist>>

\* const existing = await db('post_likes').where({ post_id, user_id }).first()
TogglePostLike_findExisting(p) ==
  /\ req[p].pc = "like_findExisting"
  /\ req' = [req EXCEPT ![p] =
       [@ EXCEPT !.pc = "like_mutate",
                 !.existing = postLikesOf(post_likes, req[p].numericPostId,
                                          req[p].user.id) # {}]]
  /\ UNCHANGED <<tables, now, calls, hist>>

\* if (existing) del() else insert(); a rejected insert throws into the catch
TogglePostLike_mutate(p) ==
  /\ req[p].pc = "like_mutate"
  /\ LET r == req[p]
         row == [post_id |-> r.numericPostId, user_id |-> r.user.id,
                 created_at |-> now]
     IN IF r.existing
        THEN /\ post_likes' = unlikePost(post_likes, r.numericPostId, r.user.id)
             /\ req' = [req EXCEPT ![p] = [r EXCEPT !.pc = "like_count"]]
        ELSE IF postLikeKeyTaken(post_likes, row)
        THEN /\ post_likes' = post_likes
             /\ req' = [req EXCEPT ![p] =
                    respond(r, 500, errorBody("internal_server_error"))]
        ELSE /\ post_likes' = post_likes (+) SetToBag({row})
             /\ req' = [req EXCEPT ![p] =
                    [r EXCEPT !.pc = "like_count", !.liked = TRUE]]
  /\ UNCHANGED <<users, friendships, friend_suggestions, friend_requests,
                 posts, comments, comment_likes, now, calls, hist>>

\* the count after the mutation, and res.json({ liked, likes })
TogglePostLike_count(p) ==
  /\ req[p].pc = "like_count"
  /\ req' = [req EXCEPT ![p] =
       respond(@, 200,
         [liked |-> req[p].liked,
          likes |-> countPostLikes(post_likes, req[p].numericPostId)])]
  /\ UNCHANGED <<tables, now, calls, hist>>

\* ---------------------------------------------------------------- POST /posts/:postId/comments/:commentId/like
\* the head of the handler, up to its first await
ToggleCommentLike_head(user, postId, commentId) ==
  LET r == [IdleReq EXCEPT !.op = "ToggleCommentLike", !.user = user,
                           !.postId = postId, !.commentId = commentId,
                           !.numericPostId = parseInt(postId).val,
                           !.numericCommentId = parseInt(commentId).val]
  IN IF parseInt(postId).nan \/ parseInt(commentId).nan
     THEN respond(r, 404, errorBody("not_found"))
     ELSE [r EXCEPT !.pc = "clike_findComment"]

ToggleCommentLike(p, user, postId, commentId) ==
  /\ begin(p, ToggleCommentLike_head(user, postId, commentId))
  /\ UNCHANGED <<tables, now>>

\* db('comment_likes').where({ comment_id, user_id }): the rows the where clause selects
commentLikesOf(likes, commentId, userId) ==
  RowsWhere(likes, LAMBDA row : row.comment_id = commentId /\ row.user_id = userId)

\* db('comment_likes').where({ comment_id, user_id }).del()
unlikeComment(likes, commentId, userId) ==
  DeleteWhere(likes, LAMBDA row : row.comment_id = commentId /\ row.user_id = userId)

\* db('comment_likes').where({ comment_id }).count({ count: '*' })
countCommentLikes(likes, commentId) ==
  CountWhere(likes, LAMBDA row : row.comment_id = commentId)

\* mutant: a table without the key
commentLikeKeyTaken_never(likes, row) == FALSE

\* table.primary(['comment_id', 'user_id']): the insert the key rejects
commentLikeKeyTaken(likes, row) ==
  \E old \in BagToSet(likes) :
      old.comment_id = row.comment_id /\ old.user_id = row.user_id

\* mutant: the comment is looked up by its id alone
ToggleCommentLike_findComment_byIdOnly(p) ==
  /\ req[p].pc = "clike_findComment"
  /\ req' = [req EXCEPT ![p] =
       IF \E comment \in comments : comment.id = req[p].numericCommentId
       THEN [@ EXCEPT !.pc = "clike_findExisting"]
       ELSE respond(@, 404, errorBody("not_found"))]
  /\ UNCHANGED <<tables, now, calls, hist>>

\* const comment = await db('comments').where({ id, post_id }).first()
ToggleCommentLike_findComment(p) ==
  /\ req[p].pc = "clike_findComment"
  /\ req' = [req EXCEPT ![p] =
       IF \E comment \in comments :
             /\ comment.id = req[p].numericCommentId
             /\ comment.post_id = req[p].numericPostId
       THEN [@ EXCEPT !.pc = "clike_findExisting"]
       ELSE respond(@, 404, errorBody("not_found"))]
  /\ UNCHANGED <<tables, now, calls, hist>>

\* const existing = await db('comment_likes').where({ comment_id, user_id }).first()
ToggleCommentLike_findExisting(p) ==
  /\ req[p].pc = "clike_findExisting"
  /\ req' = [req EXCEPT ![p] =
       [@ EXCEPT !.pc = "clike_mutate",
                 !.existing = commentLikesOf(comment_likes,
                                  req[p].numericCommentId, req[p].user.id) # {}]]
  /\ UNCHANGED <<tables, now, calls, hist>>

\* if (existing) del() else insert(); a rejected insert throws into the catch
ToggleCommentLike_mutate(p) ==
  /\ req[p].pc = "clike_mutate"
  /\ LET r == req[p]
         row == [comment_id |-> r.numericCommentId, user_id |-> r.user.id,
                 created_at |-> now]
     IN IF r.existing
        THEN /\ comment_likes' = unlikeComment(comment_likes, r.numericCommentId,
                                               r.user.id)
             /\ req' = [req EXCEPT ![p] = [r EXCEPT !.pc = "clike_count"]]
        ELSE IF commentLikeKeyTaken(comment_likes, row)
        THEN /\ comment_likes' = comment_likes
             /\ req' = [req EXCEPT ![p] =
                    respond(r, 500, errorBody("internal_server_error"))]
        ELSE /\ comment_likes' = comment_likes (+) SetToBag({row})
             /\ req' = [req EXCEPT ![p] =
                    [r EXCEPT !.pc = "clike_count", !.liked = TRUE]]
  /\ UNCHANGED <<users, friendships, friend_suggestions, friend_requests,
                 posts, comments, post_likes, now, calls, hist>>

\* the count after the mutation, and res.json({ liked, likes })
ToggleCommentLike_count(p) ==
  /\ req[p].pc = "clike_count"
  /\ req' = [req EXCEPT ![p] =
       respond(@, 200,
         [liked |-> req[p].liked,
          likes |-> countCommentLikes(comment_likes, req[p].numericCommentId)])]
  /\ UNCHANGED <<tables, now, calls, hist>>

\* ---------------------------------------------------------------- POST /posts
MaxPostLength == 5000

\* formatPost with the maps and sets it is given
formatPost(post, likeCounts, likedByUserSet, commentsOfPost) ==
  [id |-> String(post.id), username |-> post.username, text |-> post.text,
   timestamp |-> post.createdAt,
   likes |-> IF post.id \in DOMAIN likeCounts THEN likeCounts[post.id] ELSE 0,
   likedByCurrentUser |-> post.id \in likedByUserSet,
   comments |-> commentsOfPost]

\* mutant: the length of the trimmed text
tooLong_trimmed(text) == Len(trim(text)) > MaxPostLength

\* text.length > 5000
tooLong(text) == Len(text) > MaxPostLength

\* the head of the handler: the two validations, then trim and new Date()
CreatePost_head(user, text, at) ==
  LET r == [IdleReq EXCEPT !.op = "CreatePost", !.user = user, !.text = text]
  IN IF text = <<>> \/ Len(trim(text)) = 0
     THEN respond(r, 400, errorBody("validation_error"))
     ELSE IF tooLong(text)
     THEN respond(r, 400, errorBody("validation_error"))
     ELSE [r EXCEPT !.pc = "post_insert", !.trimmedText = trim(text),
                    !.createdAt = at]

CreatePost(p, user, text) ==
  /\ begin(p, CreatePost_head(user, text, now))
  /\ UNCHANGED <<tables, now>>

\* const [postId] = await db('posts').insert({ user_id, text, created_at })
CreatePost_insert(p) ==
  /\ req[p].pc = "post_insert"
  /\ posts' = posts \cup {[id |-> nextId(posts), user_id |-> req[p].user.id,
                           text |-> req[p].trimmedText,
                           created_at |-> req[p].createdAt]}
  /\ req' = [req EXCEPT ![p] =
       [@ EXCEPT !.pc = "post_select", !.numericPostId = nextId(posts)]]
  /\ UNCHANGED <<users, friendships, friend_suggestions, friend_requests,
                 comments, post_likes, comment_likes, now, calls, hist>>

\* the re-select of the inserted post joined to its author, and the 201
CreatePost_select(p) ==
  /\ req[p].pc = "post_select"
  /\ LET rows == {[id |-> post.id, username |-> u.username,
                   text |-> post.text, createdAt |-> post.created_at] :
                  <<post, u>> \in {pu \in posts \X users :
                      pu[1].user_id = pu[2].id
                      /\ pu[1].id = req[p].numericPostId}}
     IN req' = [req EXCEPT ![p] =
          IF rows = {}
          THEN respond(@, 500, errorBody("internal_server_error"))
          ELSE respond(@, 201,
                 formatPost(CHOOSE row \in rows : TRUE, <<>>, {}, <<>>))]
  /\ UNCHANGED <<tables, now, calls, hist>>

\* ---------------------------------------------------------------- POST /posts/:postId/comments
MaxCommentLength == 1000

\* text.length > 1000
commentTooLong(text) == Len(text) > MaxCommentLength

\* the head of the handler: the two validations, parseInt of the post id,
\* then trim and new Date()
AddComment_head(user, postId, text, at) ==
  LET r == [IdleReq EXCEPT !.op = "AddComment", !.user = user,
                           !.postId = postId, !.text = text]
      numericPostId == parseInt(postId)
  IN IF text = <<>> \/ Len(trim(text)) = 0
     THEN respond(r, 400, errorBody("validation_error"))
     ELSE IF commentTooLong(text)
     THEN respond(r, 400, errorBody("validation_error"))
     ELSE IF numericPostId.nan
     THEN respond(r, 404, errorBody("not_found"))
     ELSE [r EXCEPT !.pc = "comment_findPost",
                    !.numericPostId = numericPostId.val,
                    !.trimmedText = trim(text), !.createdAt = at]

AddComment(p, user, postId, text) ==
  /\ begin(p, AddComment_head(user, postId, text, now))
  /\ UNCHANGED <<tables, now>>

\* mutant: the insert is reached whether or not the post exists
AddComment_findPost_unchecked(p) ==
  /\ req[p].pc = "comment_findPost"
  /\ req' = [req EXCEPT ![p] = [@ EXCEPT !.pc = "comment_insert"]]
  /\ UNCHANGED <<tables, now, calls, hist>>

\* const postExists = await db('posts').where({ id: numericPostId }).first()
AddComment_findPost(p) ==
  /\ req[p].pc = "comment_findPost"
  /\ req' = [req EXCEPT ![p] =
       IF \E post \in posts : post.id = req[p].numericPostId
       THEN [@ EXCEPT !.pc = "comment_insert"]
       ELSE respond(@, 404, errorBody("not_found"))]
  /\ UNCHANGED <<tables, now, calls, hist>>

\* mutant: the comment is written in the name of the author of the post
AddComment_insert_asPostAuthor(p) ==
  /\ req[p].pc = "comment_insert"
  /\ comments' = comments \cup
       {[id |-> nextId(comments), post_id |-> req[p].numericPostId,
         user_id |-> (CHOOSE post \in posts : post.id = req[p].numericPostId).user_id,
         text |-> req[p].trimmedText, created_at |-> req[p].createdAt]}
  /\ req' = [req EXCEPT ![p] =
       [@ EXCEPT !.pc = "comment_select", !.numericCommentId = nextId(comments)]]
  /\ UNCHANGED <<users, friendships, friend_suggestions, friend_requests,
                 posts, post_likes, comment_likes, now, calls, hist>>

\* const [commentId] = await db('comments').insert({ post_id, user_id, text, created_at })
AddComment_insert(p) ==
  /\ req[p].pc = "comment_insert"
  /\ comments' = comments \cup
       {[id |-> nextId(comments), post_id |-> req[p].numericPostId,
         user_id |-> req[p].user.id, text |-> req[p].trimmedText,
         created_at |-> req[p].createdAt]}
  /\ req' = [req EXCEPT ![p] =
       [@ EXCEPT !.pc = "comment_select", !.numericCommentId = nextId(comments)]]
  /\ UNCHANGED <<users, friendships, friend_suggestions, friend_requests,
                 posts, post_likes, comment_likes, now, calls, hist>>

\* the re-select of the inserted comment joined to its author, and the 201
AddComment_select(p) ==
  /\ req[p].pc = "comment_select"
  /\ LET rows == {[id |-> c.id, username |-> u.username, text |-> c.text,
                   createdAt |-> c.created_at] :
                  <<c, u>> \in {cu \in comments \X users :
                      cu[1].user_id = cu[2].id
                      /\ cu[1].id = req[p].numericCommentId}}
     IN req' = [req EXCEPT ![p] =
          IF rows = {}
          THEN respond(@, 500, errorBody("internal_server_error"))
          ELSE LET commentRow == CHOOSE row \in rows : TRUE
               IN respond(@, 201,
                    [id |-> String(commentRow.id),
                     username |-> commentRow.username,
                     text |-> commentRow.text,
                     timestamp |-> commentRow.createdAt,
                     likes |-> 0, likedByCurrentUser |-> FALSE])]
  /\ UNCHANGED <<tables, now, calls, hist>>

\* ---------------------------------------------------------------- POST /friends/request
\* mutant: a table without the constraint
requestKeyTaken_never(requests, row) == FALSE

\* table.unique(['sender_user_id', 'receiver_user_id']): the insert the constraint rejects
requestKeyTaken(requests, row) ==
  \E old \in requests :
      /\ old.sender_user_id = row.sender_user_id
      /\ old.receiver_user_id = row.receiver_user_id

\* mutant: a friendship in either direction
friendshipExists_eitherWay(rows, userId, friendUserId) ==
  \E f \in rows :
    {f.user_id, f.friend_user_id} = {userId, friendUserId}

\* db('friendships').where({ user_id, friend_user_id }).first()
friendshipExists(rows, userId, friendUserId) ==
  \E f \in rows : f.user_id = userId /\ f.friend_user_id = friendUserId

\* mutant: the two columns of the where clause swapped
requestExists_swapped(rows, senderUserId, receiverUserId) ==
  \E fr \in rows :
      fr.sender_user_id = receiverUserId /\ fr.receiver_user_id = senderUserId

\* db('friend_requests').where({ sender_user_id, receiver_user_id }).first()
requestExists(rows, senderUserId, receiverUserId) ==
  \E fr \in rows :
      fr.sender_user_id = senderUserId /\ fr.receiver_user_id = receiverUserId

\* the head of the handler: the two validations, up to the first await
SendFriendRequest_head(user, username) ==
  LET normalized == toLowerCase(trim(username))
      r == [IdleReq EXCEPT !.op = "SendFriendRequest", !.user = user,
                           !.username = username]
  IN IF username = <<>> \/ Len(trim(username)) = 0
     THEN respond(r, 400, errorBody("validation_error"))
     ELSE IF normalized = user.username
     THEN respond([r EXCEPT !.normalized = normalized], 400,
                  errorBody("validation_error"))
     ELSE [r EXCEPT !.pc = "send_findTarget", !.normalized = normalized]

SendFriendRequest(p, user, username) ==
  /\ begin(p, SendFriendRequest_head(user, username))
  /\ UNCHANGED <<tables, now>>

\* const targetUser = await db('users').where({ username: normalized }).first()
SendFriendRequest_findTarget(p) ==
  /\ req[p].pc = "send_findTarget"
  /\ LET found == {u \in users : u.username = req[p].normalized}
     IN req' = [req EXCEPT ![p] =
          IF found = {}
          THEN respond(@, 404, errorBody("user_not_found"))
          ELSE LET u == CHOOSE u \in found : TRUE
               IN [@ EXCEPT !.pc = "send_findFriendship", !.targetUser = u]]
  /\ UNCHANGED <<tables, now, calls, hist>>

\* const existingFriendship = await db('friendships').where({ user_id, friend_user_id }).first()
SendFriendRequest_findFriendship(p) ==
  /\ req[p].pc = "send_findFriendship"
  /\ req' = [req EXCEPT ![p] =
       IF friendshipExists(friendships, req[p].user.id, req[p].targetUser.id)
       THEN respond(@, 400, errorBody("already_friends"))
       ELSE [@ EXCEPT !.pc = "send_findRequest"]]
  /\ UNCHANGED <<tables, now, calls, hist>>

\* const existingRequest = await db('friend_requests').where({ sender_user_id: userId, receiver_user_id: targetUser.id }).first()
SendFriendRequest_findRequest(p) ==
  /\ req[p].pc = "send_findRequest"
  /\ req' = [req EXCEPT ![p] =
       IF requestExists(friend_requests, req[p].user.id, req[p].targetUser.id)
       THEN respond(@, 400, errorBody("request_already_sent"))
       ELSE [@ EXCEPT !.pc = "send_findReverse"]]
  /\ UNCHANGED <<tables, now, calls, hist>>

\* mutant: a reverse request is accepted and makes the two users friends
SendFriendRequest_findReverse_accept(p) ==
  /\ req[p].pc = "send_findReverse"
  /\ LET reverse == {fr \in friend_requests :
                       /\ fr.sender_user_id = req[p].targetUser.id
                       /\ fr.receiver_user_id = req[p].user.id}
     IN IF reverse = {}
        THEN /\ req' = [req EXCEPT ![p] =
                  [@ EXCEPT !.pc = "send_insert", !.createdAt = now]]
             /\ UNCHANGED <<friend_requests, friendships>>
        ELSE /\ friend_requests' =
                  (friend_requests \ reverse)
                    \cup {[fr EXCEPT !.status = "accepted"] : fr \in reverse}
             /\ friendships' = friendships \cup
                  {[id |-> nextId(friendships), user_id |-> req[p].user.id,
                    friend_user_id |-> req[p].targetUser.id, status |-> <<>>,
                    mutual_friends |-> 0, created_at |-> now]}
             /\ req' = [req EXCEPT ![p] =
                  respond(@, 400, errorBody("request_exists"))]
  /\ UNCHANGED <<users, friend_suggestions, posts, comments, post_likes,
                 comment_likes, now, calls, hist>>

\* mutant: the request row is written before the reverse request is looked for
SendFriendRequest_findReverse_afterInsert(p) ==
  /\ req[p].pc = "send_findReverse"
  /\ friend_requests' = friend_requests \cup
       {[id |-> nextId(friend_requests), sender_user_id |-> req[p].user.id,
         receiver_user_id |-> req[p].targetUser.id, mutual_friends |-> 0,
         status |-> "pending", created_at |-> now]}
  /\ req' = [req EXCEPT ![p] =
       IF requestExists(friend_requests, req[p].targetUser.id, req[p].user.id)
       THEN respond(@, 400, errorBody("request_exists"))
       ELSE respond(@, 201, [data |-> [id |-> String(nextId(friend_requests))]])]
  /\ UNCHANGED <<users, friendships, friend_suggestions, posts, comments,
                 post_likes, comment_likes, now, calls, hist>>

\* const reverseRequest = await db('friend_requests').where({ sender_user_id: targetUser.id, receiver_user_id: userId }).first()
\* and, when there is none, createdAt = new Date()
SendFriendRequest_findReverse(p) ==
  /\ req[p].pc = "send_findReverse"
  /\ req' = [req EXCEPT ![p] =
       IF requestExists(friend_requests, req[p].targetUser.id, req[p].user.id)
       THEN respond(@, 400, errorBody("request_exists"))
       ELSE [@ EXCEPT !.pc = "send_insert", !.createdAt = now]]
  /\ UNCHANGED <<tables, now, calls, hist>>

\* await db('friend_requests').insert({...}).returning('id'), and the 201;
\* an insert the unique constraint rejects throws into the catch
SendFriendRequest_insert(p) ==
  /\ req[p].pc = "send_insert"
  /\ LET r == req[p]
         row == [id |-> nextId(friend_requests),
                 sender_user_id |-> r.user.id,
                 receiver_user_id |-> r.targetUser.id,
                 mutual_friends |-> 0, status |-> "pending",
                 created_at |-> r.createdAt]
     IN IF requestKeyTaken(friend_requests, row)
        THEN /\ friend_requests' = friend_requests
             /\ req' = [req EXCEPT ![p] =
                    respond(r, 500, errorBody("internal_server_error"))]
        ELSE /\ friend_requests' = friend_requests \cup {row}
             /\ req' = [req EXCEPT ![p] =
                    respond(r, 201,
                      [data |-> [id |-> String(row.id),
                                 username |-> r.targetUser.username,
                                 profileImage |-> r.targetUser.profile_image,
                                 mutualFriends |-> 0, type |-> "outgoing",
                                 sentAt |-> r.createdAt]])]
  /\ UNCHANGED <<users, friendships, friend_suggestions, posts, comments,
                 post_likes, comment_likes, now, calls, hist>>

\* ---------------------------------------------------------------- GET /friends/requests
Incoming == <<"i", "n", "c", "o", "m", "i", "n", "g">>
Outgoing == <<"o", "u", "t", "g", "o", "i", "n", "g">>
DefaultLimit == 20

\* Number.isNaN(Number(value)) of a string of digits, signs, letters and
\* blanks: Number() of a blank string is 0, of a signed run of digits its value
isNaNNumber(s) ==
  LET t == trim(s)
      d == IF t # <<>> /\ Head(t) \in {"-", "+"} THEN Tail(t) ELSE t
  IN t # <<>> /\ (d = <<>> \/ \E i \in 1..Len(d) : ~isDigit(d[i]))

\* Number.isNaN(Number(value)) ? def : parseInt(value, 10), value = def when absent
queryInt(param, def) ==
  IF ~param.present THEN Num(def)
  ELSE IF isNaNNumber(param.s) THEN Num(def)
  ELSE parseInt(param.s)

\* Array.prototype.slice(start, end): NaN counts as 0, a negative index counts from the end
sliceIndex(n, len) ==
  IF n.nan THEN 0
  ELSE IF n.val < 0 THEN (IF len + n.val < 0 THEN 0 ELSE len + n.val)
  ELSE IF n.val > len THEN len ELSE n.val

slice(seq, start, end) ==
  LET from == sliceIndex(start, Len(seq))
      to == sliceIndex(end, Len(seq))
  IN IF from >= to THEN <<>> ELSE SubSeq(seq, from + 1, to)

\* a + b of two numbers
plus(a, b) == IF a.nan \/ b.nan THEN NaN ELSE Num(a.val + b.val)

\* the results a query ordered by created_at descending can give: rows of one
\* created_at come in any order
orderedDesc(rows) ==
  {seq \in [1..Cardinality(rows) -> rows] :
     /\ \A i, j \in 1..Cardinality(rows) : i # j => seq[i] # seq[j]
     /\ \A i, j \in 1..Cardinality(rows) :
          i < j => seq[i].created_at >= seq[j].created_at}

\* aggregated.sort((a, b) => new Date(b.sentAt) - new Date(a.sentAt)): a stable sort
RECURSIVE insertBySentAt(_, _)
insertBySentAt(sorted, e) ==
  IF sorted = <<>> THEN <<e>>
  ELSE IF Head(sorted).sentAt >= e.sentAt
  THEN <<Head(sorted)>> \o insertBySentAt(Tail(sorted), e)
  ELSE <<e>> \o sorted

\* mutant: the entries as the two queries gave them
sortBySentAt_asQueried(seq) == seq

RECURSIVE sortBySentAt(_)
sortBySentAt(seq) ==
  IF seq = <<>> THEN <<>>
  ELSE insertBySentAt(sortBySentAt(SubSeq(seq, 1, Len(seq) - 1)), seq[Len(seq)])

\* the entry of a request row joined to the user on its other side
requestEntry(row, u, type) ==
  [id |-> String(row.id), username |-> u.username,
   profileImage |-> u.profile_image,
   mutualFriends |-> row.mutual_friends, type |-> type,
   sentAt |-> row.created_at]

\* the sort, the slice and the response, after the last query
requestsPage(r, aggregated) ==
  LET sorted == sortBySentAt(aggregated)
  IN respond([r EXCEPT !.aggregated = sorted], 200,
       [data |-> slice(sorted, r.offsetNum, plus(r.offsetNum, r.limitNum)),
        pagination |-> [total |-> Len(sorted), limit |-> r.limitNum,
                        offset |-> r.offsetNum]])

\* mutant: the incoming query filtered by the sender
incomingRows_bySender(requests, userRows, userId) ==
  {fr \in requests :
     /\ fr.sender_user_id = userId
     /\ \E u \in userRows : u.id = fr.sender_user_id}

\* .join('users as u', 'fr.sender_user_id', 'u.id').where('fr.receiver_user_id', userId)
incomingRows(requests, userRows, userId) ==
  {fr \in requests :
     /\ fr.receiver_user_id = userId
     /\ \E u \in userRows : u.id = fr.sender_user_id}

\* .join('users as u', 'fr.receiver_user_id', 'u.id').where('fr.sender_user_id', userId)
outgoingRows(requests, userRows, userId) ==
  {fr \in requests :
     /\ fr.sender_user_id = userId
     /\ \E u \in userRows : u.id = fr.receiver_user_id}

includeIncoming(type) == ~type.present \/ type.s = <<>> \/ type.s = Incoming
includeOutgoing(type) == ~type.present \/ type.s = <<>> \/ type.s = Outgoing

\* the head of the handler, up to its first await
ListRequests_head(user, type, limit, offset) ==
  LET r == [IdleReq EXCEPT !.op = "ListRequests", !.user = user,
                           !.type = type, !.limit = limit,
                           !.offset = offset,
                           !.limitNum = queryInt(limit, DefaultLimit),
                           !.offsetNum = queryInt(offset, 0)]
  IN IF includeIncoming(type) THEN [r EXCEPT !.pc = "list_incoming"]
     ELSE IF includeOutgoing(type) THEN [r EXCEPT !.pc = "list_outgoing"]
     ELSE requestsPage(r, <<>>)

ListRequests(p, user, type, limit, offset) ==
  /\ begin(p, ListRequests_head(user, type, limit, offset))
  /\ UNCHANGED <<tables, now>>

\* the incoming query: requests received by the viewer, joined to their senders
ListRequests_incoming(p) ==
  /\ req[p].pc = "list_incoming"
  /\ LET rows == incomingRows(friend_requests, users, req[p].user.id)
     IN \E incoming \in orderedDesc(rows) :
          LET aggregated ==
                [i \in 1..Len(incoming) |->
                   requestEntry(incoming[i],
                     CHOOSE u \in users : u.id = incoming[i].sender_user_id,
                     "incoming")]
          IN req' = [req EXCEPT ![p] =
               IF includeOutgoing(req[p].type)
               THEN [@ EXCEPT !.pc = "list_outgoing", !.aggregated = aggregated]
               ELSE requestsPage(@, aggregated)]
  /\ UNCHANGED <<tables, now, calls, hist>>

\* the outgoing query: requests sent by the viewer, joined to their receivers
ListRequests_outgoing(p) ==
  /\ req[p].pc = "list_outgoing"
  /\ LET rows == outgoingRows(friend_requests, users, req[p].user.id)
     IN \E outgoing \in orderedDesc(rows) :
          LET entries ==
                [i \in 1..Len(outgoing) |->
                   requestEntry(outgoing[i],
                     CHOOSE u \in users : u.id = outgoing[i].receiver_user_id,
                     "outgoing")]
          IN req' = [req EXCEPT ![p] =
               requestsPage(@, req[p].aggregated \o entries)]
  /\ UNCHANGED <<tables, now, calls, hist>>

\* ---------------------------------------------------------------- GET /friends
\* the characters of the usernames, in the order the store compares them
Alphabet ==
  <<" ", "a", "b", "c", "d", "e", "f", "g", "h", "i", "j", "k", "l", "m",
    "n", "o", "p", "q", "r", "s", "t", "u", "v", "w", "x", "y", "z">>

rank(c) ==
  IF \E i \in 1..Len(Alphabet) : Alphabet[i] = c
  THEN CHOOSE i \in 1..Len(Alphabet) : Alphabet[i] = c
  ELSE 0

\* a < b, of two strings
RECURSIVE lessThan(_, _)
lessThan(a, b) ==
  IF b = <<>> THEN FALSE
  ELSE IF a = <<>> THEN TRUE
  ELSE IF Head(a) = Head(b) THEN lessThan(Tail(a), Tail(b))
  ELSE rank(Head(a)) < rank(Head(b))

\* s LIKE pattern: % stands for any run of characters, _ for any one
\* character, every other character for itself
RECURSIVE likeMatch(_, _)
likeMatch(s, pattern) ==
  IF pattern = <<>> THEN s = <<>>
  ELSE IF Head(pattern) = "%"
  THEN likeMatch(s, Tail(pattern)) \/ (s # <<>> /\ likeMatch(Tail(s), pattern))
  ELSE IF s = <<>> THEN FALSE
  ELSE /\ Head(pattern) = "_" \/ Head(pattern) = Head(s)
       /\ likeMatch(Tail(s), Tail(pattern))

\* lower(u.username) LIKE ? with `%${term}%`: the term goes into the pattern
\* as it was sent
like(s, term) == likeMatch(s, <<"%">> \o term \o <<"%">>)

\* mutant: a limit that is never applied
limitOffset_noLimit(seq, limitNum, offsetNum) ==
  LET off == IF offsetNum.nan \/ offsetNum.val < 0 THEN 0
             ELSE IF offsetNum.val > Len(seq) THEN Len(seq) ELSE offsetNum.val
  IN SubSeq(seq, off + 1, Len(seq))

\* .limit(limitNum).offset(offsetNum) of the store: a limit that is negative
\* or not a number is no limit, an offset that is negative or not a number
\* is an offset of 0
limitOffset(seq, limitNum, offsetNum) ==
  LET off == IF offsetNum.nan \/ offsetNum.val < 0 THEN 0
             ELSE IF offsetNum.val > Len(seq) THEN Len(seq) ELSE offsetNum.val
      lim == IF limitNum.nan \/ limitNum.val < 0 THEN Len(seq)
             ELSE limitNum.val
  IN SubSeq(seq, off + 1, IF off + lim > Len(seq) THEN Len(seq) ELSE off + lim)

\* a truthy query parameter
truthy(param) == param.present /\ param.s # <<>>

\* baseQuery: the friendships of the user joined to the friends, filtered
friendRows(rows, userRows, userId, statusFilter, search) ==
  {f \in rows :
     /\ f.user_id = userId
     /\ \E u \in userRows : u.id = f.friend_user_id
     /\ truthy(statusFilter) => f.status = statusFilter.s
     /\ truthy(search) =>
          \E u \in userRows :
            /\ u.id = f.friend_user_id
            /\ like(toLowerCase(u.username), toLowerCase(trim(search.s)))}

\* the head of the handler, up to its first await
ListFriends_head(user, statusFilter, search, limit, offset) ==
  [IdleReq EXCEPT !.op = "ListFriends", !.user = user,
                !.statusFilter = statusFilter,
                !.search = search,
                !.limit = limit, !.offset = offset,
                !.limitNum = queryInt(limit, DefaultLimit),
                !.offsetNum = queryInt(offset, 0),
                !.pc = "friends_count"]

ListFriends(p, user, statusFilter, search, limit, offset) ==
  /\ begin(p, ListFriends_head(user, statusFilter, search, limit, offset))
  /\ UNCHANGED <<tables, now>>

\* const totalResult = await baseQuery.clone().count({ count: '*' }).first()
ListFriends_count(p) ==
  /\ req[p].pc = "friends_count"
  /\ req' = [req EXCEPT ![p] =
       [@ EXCEPT !.pc = "friends_rows",
                 !.total = Cardinality(friendRows(friendships, users,
                             req[p].user.id, req[p].statusFilter,
                             req[p].search))]]
  /\ UNCHANGED <<tables, now, calls, hist>>

\* the page of rows ordered by username ascending, and the response
ListFriends_rows(p) ==
  /\ req[p].pc = "friends_rows"
  /\ LET rows == friendRows(friendships, users, req[p].user.id,
                            req[p].statusFilter, req[p].search)
         name(f) == (CHOOSE u \in users : u.id = f.friend_user_id).username
     IN \E ordered \in {seq \in [1..Cardinality(rows) -> rows] :
            /\ \A i, j \in 1..Cardinality(rows) : i # j => seq[i] # seq[j]
            /\ \A i, j \in 1..Cardinality(rows) :
                 i < j => ~lessThan(name(seq[j]), name(seq[i]))} :
          LET page == limitOffset(ordered, req[p].limitNum, req[p].offsetNum)
          IN req' = [req EXCEPT ![p] =
               respond(@, 200,
                 [data |-> [i \in 1..Len(page) |->
                     [id |-> String(page[i].id), username |-> name(page[i]),
                      status |-> page[i].status,
                      mutualFriends |-> page[i].mutual_friends]],
                  pagination |-> [total |-> req[p].total,
                                  limit |-> req[p].limitNum,
                                  offset |-> req[p].offsetNum]])]
  /\ UNCHANGED <<tables, now, calls, hist>>

\* ---------------------------------------------------------------- GET /friends/suggestions
\* baseQuery: the suggestions of the user joined to the suggested users
suggestionRows(rows, userRows, userId) ==
  {fs \in rows :
     /\ fs.user_id = userId
     /\ \E u \in userRows : u.id = fs.suggested_user_id}

\* the head of the handler, up to its first await
ListSuggestions_head(user, limit, offset) ==
  [IdleReq EXCEPT !.op = "ListSuggestions", !.user = user,
                !.limit = limit, !.offset = offset,
                !.limitNum = queryInt(limit, DefaultLimit),
                !.offsetNum = queryInt(offset, 0),
                !.pc = "suggestions_count"]

ListSuggestions(p, user, limit, offset) ==
  /\ begin(p, ListSuggestions_head(user, limit, offset))
  /\ UNCHANGED <<tables, now>>

\* const totalResult = await baseQuery.clone().count({ count: '*' }).first()
ListSuggestions_count(p) ==
  /\ req[p].pc = "suggestions_count"
  /\ req' = [req EXCEPT ![p] =
       [@ EXCEPT !.pc = "suggestions_rows",
                 !.total = Cardinality(suggestionRows(friend_suggestions,
                                         users, req[p].user.id))]]
  /\ UNCHANGED <<tables, now, calls, hist>>

\* the page of rows ordered by created_at descending, and the response
ListSuggestions_rows(p) ==
  /\ req[p].pc = "suggestions_rows"
  /\ \E ordered \in orderedDesc(suggestionRows(friend_suggestions, users,
                                                req[p].user.id)) :
       LET page == limitOffset(ordered, req[p].limitNum, req[p].offsetNum)
       IN req' = [req EXCEPT ![p] =
            respond(@, 200,
              [data |-> [i \in 1..Len(page) |->
                  [id |-> String(page[i].id),
                   username |-> (CHOOSE u \in users :
                                   u.id = page[i].suggested_user_id).username,
                   mutualFriends |-> page[i].mutual_friends]],
               pagination |-> [total |-> req[p].total,
                               limit |-> req[p].limitNum,
                               offset |-> req[p].offsetNum]])]
  /\ UNCHANGED <<tables, now, calls, hist>>

\* ---------------------------------------------------------------- GET /posts
MaxLimit == 100

\* parseLimit: the default for what is not a positive number, at most 100
parseLimit(param) ==
  LET parsed == IF param.present THEN parseInt(param.s) ELSE Num(DefaultLimit)
  IN IF parsed.nan \/ parsed.val <= 0 THEN Num(DefaultLimit)
     ELSE IF parsed.val > MaxLimit THEN Num(MaxLimit) ELSE parsed

\* parseOffset: 0 for what is not a number or is negative
parseOffset(param) ==
  LET parsed == IF param.present THEN parseInt(param.s) ELSE Num(0)
  IN IF parsed.nan \/ parsed.val < 0 THEN Num(0) ELSE parsed

\* the order the store gives to rows ordered by created_at descending: the
\* rows of one created_at come in an order that the table fixes, the same
\* for every caller of the query
newestFirst(rows) == CHOOSE seq \in orderedDesc(rows) : TRUE

\* mutant: the comments newest first
oldestFirst_reversed(rows) == newestFirst(rows)

\* the same for rows ordered by created_at ascending
oldestFirst(rows) ==
  CHOOSE seq \in [1..Cardinality(rows) -> rows] :
    /\ \A i, j \in 1..Cardinality(rows) : i # j => seq[i] # seq[j]
    /\ \A i, j \in 1..Cardinality(rows) :
         i < j => seq[i].created_at <= seq[j].created_at

\* formatComment
formatComment(comment, likeCounts, likedByUserSet) ==
  [id |-> String(comment.id), username |-> comment.username,
   text |-> comment.text, timestamp |-> comment.createdAt,
   likes |-> IF comment.id \in DOMAIN likeCounts THEN likeCounts[comment.id]
             ELSE 0,
   likedByCurrentUser |-> comment.id \in likedByUserSet]

\* const data = postRows.map(row => formatPost(...)) and res.json
feedPage(r) ==
  LET f == r.feed
      commentsOf(id) ==
        LET ofPost(c) == c.postId = id
        IN SelectSeq(f.commentRows, ofPost)
  IN respond(r, 200,
       [data |-> [i \in 1..Len(f.postRows) |->
           formatPost(f.postRows[i], f.postLikeCounts, f.postLikedByUser,
             [j \in 1..Len(commentsOf(f.postRows[i].id)) |->
                formatComment(commentsOf(f.postRows[i].id)[j],
                  f.commentLikeCounts, f.commentLikedByUser)])],
        pagination |-> [total |-> r.total, limit |-> r.limitNum,
                        offset |-> r.offsetNum]])

\* the head of the handler, up to its first await
ListFeed_head(user, limit, offset) ==
  [IdleReq EXCEPT !.op = "ListFeed", !.user = user, !.limit = limit,
                  !.offset = offset, !.limitNum = parseLimit(limit),
                  !.offsetNum = parseOffset(offset), !.pc = "feed_count"]

ListFeed(p, user, limit, offset) ==
  /\ begin(p, ListFeed_head(user, limit, offset))
  /\ UNCHANGED <<tables, now>>

\* const totalResult = await db('posts').count({ count: '*' }).first()
ListFeed_count(p) ==
  /\ req[p].pc = "feed_count"
  /\ req' = [req EXCEPT ![p] =
       [@ EXCEPT !.pc = "feed_posts", !.total = Cardinality(posts)]]
  /\ UNCHANGED <<tables, now, calls, hist>>

\* mutant: only the posts of the viewer
feedRows_ownPosts(postTable, userRows, userId) ==
  {post \in postTable :
     post.user_id = userId /\ \E u \in userRows : u.id = post.user_id}

\* db('posts as p').join('users as u', 'p.user_id', 'u.id')
feedRows(postTable, userRows, userId) ==
  {post \in postTable : \E u \in userRows : u.id = post.user_id}

\* the page of posts joined to their authors, newest first
ListFeed_posts(p) ==
  /\ req[p].pc = "feed_posts"
  /\ LET page == limitOffset(newestFirst(feedRows(posts, users, req[p].user.id)),
                             req[p].limitNum, req[p].offsetNum)
         postRows == [i \in 1..Len(page) |->
                        [id |-> page[i].id,
                         username |-> (CHOOSE u \in users :
                                         u.id = page[i].user_id).username,
                         text |-> page[i].text,
                         createdAt |-> page[i].created_at]]
     IN req' = [req EXCEPT ![p] =
          IF postRows = <<>>
          THEN feedPage(@)
          ELSE [@ EXCEPT !.pc = "feed_likeCounts", !.feed.postRows = postRows]]
  /\ UNCHANGED <<tables, now, calls, hist>>

\* the ids of the rows of a page
idsOf(rows) == {rows[i].id : i \in 1..Len(rows)}

\* whereIn(key, ids).select(key).count({ count: '*' }).groupBy(key)
groupCount(bag, ids, key(_)) ==
  LET counted == {id \in ids : \E row \in BagToSet(bag) : key(row) = id}
  IN [id \in counted |->
        LET ofId(row) == key(row) = id IN CountWhere(bag, ofId)]

\* the key of a like row
likedPost(row) == row.post_id
likedComment(row) == row.comment_id

\* the like counts of the posts of the page
ListFeed_likeCounts(p) ==
  /\ req[p].pc = "feed_likeCounts"
  /\ req' = [req EXCEPT ![p] =
       [@ EXCEPT !.pc = "feed_liked",
                 !.feed.postLikeCounts =
                   groupCount(post_likes, idsOf(req[p].feed.postRows), likedPost)]]
  /\ UNCHANGED <<tables, now, calls, hist>>

\* the posts of the page that the viewer likes
ListFeed_liked(p) ==
  /\ req[p].pc = "feed_liked"
  /\ req' = [req EXCEPT ![p] =
       [@ EXCEPT !.pc = "feed_comments",
                 !.feed.postLikedByUser =
                   {row.post_id : row \in {l \in BagToSet(post_likes) :
                      /\ l.post_id \in idsOf(req[p].feed.postRows)
                      /\ l.user_id = req[p].user.id}}]]
  /\ UNCHANGED <<tables, now, calls, hist>>

\* the comments of the posts of the page joined to their authors, oldest first
ListFeed_comments(p) ==
  /\ req[p].pc = "feed_comments"
  /\ LET rows == oldestFirst({c \in comments :
                    /\ c.post_id \in idsOf(req[p].feed.postRows)
                    /\ \E u \in users : u.id = c.user_id})
         commentRows == [i \in 1..Len(rows) |->
                           [id |-> rows[i].id, postId |-> rows[i].post_id,
                            username |-> (CHOOSE u \in users :
                                            u.id = rows[i].user_id).username,
                            text |-> rows[i].text,
                            createdAt |-> rows[i].created_at]]
     IN req' = [req EXCEPT ![p] =
          IF commentRows = <<>>
          THEN feedPage(@)
          ELSE [@ EXCEPT !.pc = "feed_commentLikeCounts",
                         !.feed.commentRows = commentRows]]
  /\ UNCHANGED <<tables, now, calls, hist>>

\* the like counts of the comments
ListFeed_commentLikeCounts(p) ==
  /\ req[p].pc = "feed_commentLikeCounts"
  /\ req' = [req EXCEPT ![p] =
       [@ EXCEPT !.pc = "feed_commentLiked",
                 !.feed.commentLikeCounts =
                   groupCount(comment_likes, idsOf(req[p].feed.commentRows),
                              likedComment)]]
  /\ UNCHANGED <<tables, now, calls, hist>>

\* the comments that the viewer likes, and the response
ListFeed_commentLiked(p) ==
  /\ req[p].pc = "feed_commentLiked"
  /\ req' = [req EXCEPT ![p] =
       feedPage([@ EXCEPT !.feed.commentLikedByUser =
                   {row.comment_id : row \in {l \in BagToSet(comment_likes) :
                      /\ l.comment_id \in idsOf(req[p].feed.commentRows)
                      /\ l.user_id = req[p].user.id}}])]
  /\ UNCHANGED <<tables, now, calls, hist>>

\* ---------------------------------------------------------------- POST /auth/register
MinUsernameLength == 3
MinPasswordLength == 6
TokenDays == 7

\* bcrypt.hash(password, 10)
hash(password) == <<"$">> \o password

\* mutant: the username trimmed and not lowercased
normalizeUsername_noLower(username) == trim(username)

\* username.trim(), then toLowerCase()
normalizeUsername(username) == toLowerCase(trim(username))

\* db('users').whereRaw('lower(username) = ?', [normalizedUsername])
usersByLowerName(rows, normalizedUsername) ==
  {u \in rows : toLowerCase(u.username) = normalizedUsername}

\* mutant: a column without the unique constraint
usernameTaken_never(rows, row) == FALSE

\* table.string('username').notNullable().unique(): the insert the constraint rejects
usernameTaken(rows, row) == \E old \in rows : old.username = row.username

\* process.env.JWT_SECRET || 'default-secret-key-change-in-production'
Secret == "default-secret-key-change-in-production"

\* jwt.sign({ sub, username }, secret, { expiresIn: '7d' })
signToken(u, at) ==
  [sub |-> u.id, username |-> u.username, iat |-> at, exp |-> at + TokenDays,
   sig |-> Secret]

\* mutant: the length of the username as it was sent
usernameTooShort_untrimmed(username) == Len(username) < MinUsernameLength

\* trimmedUsername.length < 3
usernameTooShort(username) == Len(trim(username)) < MinUsernameLength

\* the head of the handler: the three validations, up to the first await
Register(p, username, password) ==
  /\ begin(p,
       LET r == [IdleReq EXCEPT !.op = "Register", !.username = username,
                                !.password = password]
       IN IF username = <<>> \/ password = <<>>
          THEN respond(r, 400, errorBody("validation_error"))
          ELSE IF usernameTooShort(username)
          THEN respond(r, 400, errorBody("validation_error"))
          ELSE IF Len(password) < MinPasswordLength
          THEN respond(r, 400, errorBody("validation_error"))
          ELSE [r EXCEPT !.pc = "register_findExisting",
                         !.normalized = normalizeUsername(username)])
  /\ UNCHANGED <<tables, now>>

\* const existingUser = await db('users').whereRaw('lower(username) = ?', ...).first()
Register_findExisting(p) ==
  /\ req[p].pc = "register_findExisting"
  /\ req' = [req EXCEPT ![p] =
       IF usersByLowerName(users, req[p].normalized) # {}
       THEN respond(@, 409, errorBody("username_taken"))
       ELSE [@ EXCEPT !.pc = "register_hash"]]
  /\ UNCHANGED <<tables, now, calls, hist>>

\* const hashedPassword = await bcrypt.hash(password, 10)
Register_hash(p) ==
  /\ req[p].pc = "register_hash"
  /\ req' = [req EXCEPT ![p] = [@ EXCEPT !.pc = "register_insert"]]
  /\ UNCHANGED <<tables, now, calls, hist>>

\* await db('users').insert({...}); an insert the unique constraint rejects
\* throws into the catch
Register_insert(p) ==
  /\ req[p].pc = "register_insert"
  /\ LET row == [id |-> nextId(users), username |-> req[p].normalized,
                 password_hash |-> hash(req[p].password),
                 profile_image |-> "default", status |-> "online"]
     IN IF usernameTaken(users, row)
        THEN /\ users' = users
             /\ req' = [req EXCEPT ![p] =
                    respond(@, 500, errorBody("internal_server_error"))]
        ELSE /\ users' = users \cup {row}
             /\ req' = [req EXCEPT ![p] = [@ EXCEPT !.pc = "register_select"]]
  /\ UNCHANGED <<friendships, friend_suggestions, friend_requests, posts,
                 comments, post_likes, comment_likes, now, calls, hist>>

\* const createdUser = await db('users').where({ username }).first(), the
\* token and the 201
Register_select(p) ==
  /\ req[p].pc = "register_select"
  /\ LET found == {u \in users : u.username = req[p].normalized}
     IN req' = [req EXCEPT ![p] =
          IF found = {}
          THEN respond(@, 500, errorBody("internal_server_error"))
          ELSE LET createdUser == CHOOSE u \in found : TRUE
               IN respond([@ EXCEPT !.at = now], 201,
                    [token |-> signToken(createdUser, now),
                     user |-> [id |-> String(createdUser.id),
                               username |-> createdUser.username]])]
  /\ UNCHANGED <<tables, now, calls, hist>>

\* ---------------------------------------------------------------- POST /auth/login
\* the body of both 401 answers of the handler
InvalidCredentials ==
  [code |-> "invalid_credentials", message |-> "Invalid username or password"]

\* db('users').where({ username: normalizedUsername })
usersByName(rows, normalizedUsername) ==
  {u \in rows : u.username = normalizedUsername}

\* mutant: a comparison that accepts every password
compare_always(password, passwordHash) == TRUE

\* bcrypt.compare(password, user.password_hash)
compare(password, passwordHash) == hash(password) = passwordHash

\* the head of the handler: the validation and the normalisation
Login(p, username, password) ==
  /\ begin(p,
       LET r == [IdleReq EXCEPT !.op = "Login", !.username = username,
                                !.password = password]
       IN IF username = <<>> \/ password = <<>>
          THEN respond(r, 400, errorBody("validation_error"))
          ELSE [r EXCEPT !.pc = "login_findUser",
                         !.normalized = toLowerCase(trim(username))])
  /\ UNCHANGED <<tables, now>>

\* const user = await db('users').where({ username: normalizedUsername }).first()
Login_findUser(p) ==
  /\ req[p].pc = "login_findUser"
  /\ LET found == usersByName(users, req[p].normalized)
     IN req' = [req EXCEPT ![p] =
          IF found = {} \/ (CHOOSE u \in found : TRUE).password_hash = <<>>
          THEN respond(@, 401, InvalidCredentials)
          ELSE [@ EXCEPT !.pc = "login_compare",
                         !.targetUser = CHOOSE u \in found : TRUE]]
  /\ UNCHANGED <<tables, now, calls, hist>>

\* const isValid = await bcrypt.compare(...), the token and the 200
Login_compare(p) ==
  /\ req[p].pc = "login_compare"
  /\ LET user == req[p].targetUser
     IN req' = [req EXCEPT ![p] =
          IF ~compare(req[p].password, user.password_hash)
          THEN respond(@, 401, InvalidCredentials)
          ELSE respond([@ EXCEPT !.at = now], 200,
                 [token |-> signToken(user, now),
                  user |-> [id |-> String(user.id),
                            username |-> user.username]])]
  /\ UNCHANGED <<tables, now, calls, hist>>

\* ---------------------------------------------------------------- requireAuth
Bearer == <<"B", "e", "a", "r", "e", "r", " ">>

\* mutant: every scheme passes
startsWith_anything(s, prefix) == TRUE

\* String.prototype.startsWith
startsWith(s, prefix) ==
  Len(s) >= Len(prefix) /\ SubSeq(s, 1, Len(prefix)) = prefix

\* authHeader.substring(7): the token, when seven characters come before it
substring7(header) ==
  IF Len(header.s) = Len(Bearer) THEN header.token ELSE NoToken

\* mutant: a verification that does not look at the expiry
jwtVerify_noExpiry(token, at) ==
  IF token.sig # Secret THEN [ok |-> FALSE, message |-> "invalid signature"]
  ELSE [ok |-> TRUE, message |-> "none"]

\* jwt.verify(token, secret): throws on a signature that is not the secret's
\* and on a token whose exp the clock has reached
jwtVerify(token, at) ==
  IF token.sig # Secret THEN [ok |-> FALSE, message |-> "invalid signature"]
  ELSE IF at >= token.exp THEN [ok |-> FALSE, message |-> "jwt expired"]
  ELSE [ok |-> TRUE, message |-> "none"]

\* the middleware: the answer it gives, or the req.user it attaches
requireAuth(header, at) ==
  IF ~header.present \/ header.s = <<>> \/ ~startsWith(header.s, Bearer)
  THEN [next |-> FALSE, status |-> 401, body |-> errorBody("unauthorized"),
        user |-> NoUser]
  ELSE IF ~jwtVerify(substring7(header), at).ok
  THEN [next |-> FALSE, status |-> 401, body |-> errorBody("invalid_token"),
        user |-> NoUser]
  ELSE [next |-> TRUE, status |-> 0, body |-> [code |-> "none"],
        user |-> [id |-> substring7(header).sub,
                  username |-> substring7(header).username]]

\* the routes that name requireAuth before their handler
GatedOps ==
  {"ListFriends", "ListSuggestions", "ListRequests", "SendFriendRequest",
   "ListFeed", "CreatePost", "AddComment", "TogglePostLike",
   "ToggleCommentLike"}

\* a request that requireAuth answers: next() is not called
Unauthenticated(p, op, header) ==
  /\ ~requireAuth(header, now).next
  /\ begin(p, respond([IdleReq EXCEPT !.op = op, !.auth = header, !.at = now],
                      requireAuth(header, now).status,
                      requireAuth(header, now).body))
  /\ UNCHANGED <<tables, now>>

\* POST /posts of a request that requireAuth lets through: the handler runs
\* with the req.user of the token
AuthenticatedCreatePost(p, header, text) ==
  /\ requireAuth(header, now).next
  /\ begin(p, [CreatePost_head(requireAuth(header, now).user, text, now)
                 EXCEPT !.auth = header, !.at = now])
  /\ UNCHANGED <<tables, now>>

\* a route of a request that requireAuth lets through: the handler runs with
\* the req.user of the token; r is the slot after the head of the handler
Authenticated(p, header, r) ==
  /\ requireAuth(header, now).next
  /\ begin(p, [r EXCEPT !.auth = header, !.at = now])
  /\ UNCHANGED <<tables, now>>

\* req.user of a request with this header
tokenUser(header) == requireAuth(header, now).user

\* The handler of slot p dies between the await of its insert or delete and
\* its response: the write is in the store, the client gets no answer
AfterWrite == {"post_select", "comment_select", "like_count", "clike_count"}

Crash(p) ==
  /\ req[p].pc \in AfterWrite
  /\ req' = [req EXCEPT ![p] = [@ EXCEPT !.pc = "crashed"]]
  /\ UNCHANGED <<tables, now, calls, hist>>

\* The client of a request that got no answer sends the same request again
Retry(p) ==
  /\ req[p].pc = "crashed"
  /\ begin(p,
       CASE req[p].op = "CreatePost" ->
              CreatePost_head(req[p].user, req[p].text, now)
         [] req[p].op = "AddComment" ->
              AddComment_head(req[p].user, req[p].postId, req[p].text, now)
         [] req[p].op = "TogglePostLike" ->
              TogglePostLike_head(req[p].user, req[p].postId)
         [] req[p].op = "ToggleCommentLike" ->
              ToggleCommentLike_head(req[p].user, req[p].postId, req[p].commentId))
  /\ UNCHANGED <<tables, now>>

\* the clock moves on by a day
Tick ==
  /\ now' = now + 1
  /\ UNCHANGED <<tables, req, calls, hist>>

\* ---------------------------------------------------------------- initial stores
Ann == <<"a", "n", "n">>
Bob == <<"b", "o", "b">>
Pw == <<"s", "e", "c", "r", "e", "t">>

userRow(id, username) ==
  [id |-> id, username |-> username, password_hash |-> hash(Pw),
   profile_image |-> "default", status |-> "online"]

Cat == <<"c", "a", "t">>
SeedUsers == {userRow(1, Ann), userRow(2, Bob), userRow(3, Cat)}

\* the identity a token of the user with this id carries
userRowIdentity(id) == CHOOSE i \in Identities : i.id = id

\* the variables, from a store
InitFrom(store) ==
  /\ users = store.users
  /\ friendships = store.friendships
  /\ friend_suggestions = store.friend_suggestions
  /\ friend_requests = store.friend_requests
  /\ posts = store.posts
  /\ comments = store.comments
  /\ post_likes = store.post_likes
  /\ comment_likes = store.comment_likes
  /\ now = 0
  /\ req = [p \in Procs |-> IdleReq]
  /\ calls = 0
  /\ hist = [base |-> store, procs |-> {}, n |-> 0, prev |-> NoPrev]

\* ---------------------------------------------------------------- the feed's likes
\* One post of ann with one comment of bob; any like rows the keys allow.
\* ann and bob call; cat has like rows and stays away.
LikesSeedPosts == {[id |-> 1, user_id |-> 1, text |-> <<"h", "i">>, created_at |-> 0]}
LikesSeedComments ==
  {[id |-> 1, post_id |-> 1, user_id |-> 2, text |-> <<"o", "k">>, created_at |-> 0]}

InitLikes ==
  \E pl \in SUBSET {1, 2, 3}, cl \in SUBSET {1} :
    InitFrom([EmptyStore EXCEPT
      !.users = SeedUsers,
      !.posts = LikesSeedPosts,
      !.comments = LikesSeedComments,
      !.post_likes = SetToBag({[post_id |-> 1, user_id |-> u, created_at |-> 0] : u \in pl}),
      !.comment_likes = SetToBag({[comment_id |-> 1, user_id |-> u, created_at |-> 0] : u \in cl})])

LikesCallers == {i \in Identities : i.id \in {1, 2}}
LikesPostIds == {<<"1">>, <<"2">>}
LikesCommentIds == {<<"1">>}
LikesTexts == {<<" ", "y", "o">>}

NextLikes ==
  \E p \in Procs :
    \/ \E user \in LikesCallers, postId \in LikesPostIds :
         calls < MaxCalls /\ TogglePostLike(p, user, postId)
    \/ TogglePostLike_findPost(p)
    \/ TogglePostLike_findExisting(p)
    \/ TogglePostLike_mutate(p)
    \/ TogglePostLike_count(p)
    \/ \E user \in LikesCallers, commentId \in LikesCommentIds :
         calls < MaxCalls /\ ToggleCommentLike(p, user, <<"1">>, commentId)
    \/ ToggleCommentLike_findComment(p)
    \/ ToggleCommentLike_findExisting(p)
    \/ ToggleCommentLike_mutate(p)
    \/ ToggleCommentLike_count(p)
    \/ \E text \in LikesTexts :
         calls < MaxCalls /\ CreatePost(p, userRowIdentity(1), text)
    \/ CreatePost_insert(p)
    \/ CreatePost_select(p)

SpecLikes == InitLikes /\ [][NextLikes]_vars

\* ---------------------------------------------------------------- the friend requests
\* ann, bob and cat; a friendship in one direction or none; a request of cat
\* to ann or none.
Online == <<"o", "n", "l", "i", "n", "e">>

friendshipRow(id, user, friend) ==
  [id |-> id, user_id |-> user, friend_user_id |-> friend,
   status |-> Online, mutual_friends |-> 3, created_at |-> 0]

requestRow(id, sender, receiver, at) ==
  [id |-> id, sender_user_id |-> sender, receiver_user_id |-> receiver,
   mutual_friends |-> 2, status |-> "pending", created_at |-> at]

InitFriends ==
  \E fs \in {{}, {friendshipRow(1, 1, 2)}, {friendshipRow(1, 2, 1)}},
     frs \in {{}, {requestRow(1, 3, 1, 0)}} :
    InitFrom([EmptyStore EXCEPT
      !.users = SeedUsers, !.friendships = fs, !.friend_requests = frs])

\* what ann sends: bob in capitals, herself with a blank, nobody, a blank
FriendsTargetsOfAnn ==
  {<<"B", "O", "B">>, <<"A", "n", "n", " ">>, <<"n", "o">>, <<" ">>}
\* what bob sends: ann with a blank before
FriendsTargetsOfBob == {<<" ", "a", "n", "n">>}

FriendsSends ==
  {<<userRowIdentity(1), t>> : t \in FriendsTargetsOfAnn}
    \cup {<<userRowIdentity(2), t>> : t \in FriendsTargetsOfBob}

\* the lists asked for: <<viewer, type, limit>>
FriendsLists ==
  {<<userRowIdentity(2), Given(Incoming), Absent>>,
   <<userRowIdentity(1), Given(Outgoing), Absent>>,
   <<userRowIdentity(3), Absent, Absent>>,
   <<userRowIdentity(2), Absent, Absent>>,
   <<userRowIdentity(1), Absent, Given(<<"1">>)>>}

NextFriends ==
  \E p \in Procs :
    \/ \E send \in FriendsSends :
         calls < MaxFriendCalls /\ SendFriendRequest(p, send[1], send[2])
    \/ SendFriendRequest_findTarget(p)
    \/ SendFriendRequest_findFriendship(p)
    \/ SendFriendRequest_findRequest(p)
    \/ SendFriendRequest_findReverse(p)
    \/ SendFriendRequest_insert(p)
    \/ \E list \in FriendsLists :
         calls < MaxFriendCalls /\ ListRequests(p, list[1], list[2], list[3], Absent)
    \/ ListRequests_incoming(p)
    \/ ListRequests_outgoing(p)

SpecFriends == InitFriends /\ [][NextFriends]_vars

\* ---------------------------------------------------------------- the registrations
\* ann is there; nan registers and logs in, in three spellings, ann again, a
\* name of two letters between blanks, with a good and with a short password
AuthSeedUsers == {userRow(1, Ann)}
InitAuth == InitFrom([EmptyStore EXCEPT !.users = AuthSeedUsers])

AuthUsernames ==
  {<<"n", "a", "n">>, <<" ", "N", "a", "N">>, <<"A", "N", "N", " ">>,
   <<" ", "n", "o", " ">>}
AuthPasswords == {Pw, <<"1", "2", "3">>}

NextAuth ==
  \E p \in Procs :
    \/ \E username \in AuthUsernames, password \in AuthPasswords :
         calls < MaxAuthCalls /\ Register(p, username, password)
    \/ Register_findExisting(p)
    \/ Register_hash(p)
    \/ Register_insert(p)
    \/ Register_select(p)
    \/ \E username \in AuthUsernames, password \in AuthPasswords :
         calls < MaxAuthCalls /\ Login(p, username, password)
    \/ Login_findUser(p)
    \/ Login_compare(p)

SpecAuth == InitAuth /\ [][NextAuth]_vars

\* ---------------------------------------------------------------- the gate
\* ann logs in, nan registers; requests come with no header, with another
\* scheme, with a token the server issued, at any day up to MaxNow, and with
\* a token signed with another secret
MaxGateCalls == 2
MaxNow == 8

Basic == <<"B", "a", "s", "i", "c", " ">>
LowerBearer == <<"b", "e", "a", "r", "e", "r", " ">>

\* the tokens the answers now held in the slots carry
IssuedTokens ==
  {req[q].body.token : q \in {q \in Procs :
     req[q].pc = "done" /\ req[q].op \in {"Register", "Login"}
     /\ req[q].status \in {200, 201}}}

ForgedToken == [signToken(userRow(1, Ann), 0) EXCEPT !.sig = "another-secret"]

\* the routes asked for without a verified token: one of each router, one that writes
GateOps == {"ListFriends", "ListFeed", "CreatePost"}

GateHeaders ==
  {NoHeader}
    \cup {[present |-> TRUE, s |-> s, token |-> t] :
            s \in {Bearer, Basic, LowerBearer}, t \in IssuedTokens}
    \cup {[present |-> TRUE, s |-> Bearer, token |-> ForgedToken]}

NextGate ==
  \/ now < MaxNow /\ Tick
  \/ \E p \in Procs :
       \/ calls < MaxGateCalls /\ Login(p, Ann, Pw)
       \/ Login_findUser(p)
       \/ Login_compare(p)
       \/ calls < MaxGateCalls /\ Register(p, <<"n", "a", "n">>, Pw)
       \/ Register_findExisting(p)
       \/ Register_hash(p)
       \/ Register_insert(p)
       \/ Register_select(p)
       \/ \E op \in GateOps, header \in GateHeaders :
            calls < MaxGateCalls /\ Unauthenticated(p, op, header)
       \/ \E header \in GateHeaders :
            calls < MaxGateCalls /\ AuthenticatedCreatePost(p, header, <<"y", "o">>)
       \/ CreatePost_insert(p)
       \/ CreatePost_select(p)

SpecGate == InitAuth /\ [][NextGate]_vars

\* ---------------------------------------------------------------- the lists
\* ann has two friends, one of them online, two suggestions of one hour, a
\* request of cat and, later, one of her own to bob; three posts, two of
\* them of one instant, and a comment of bob on the first. Times before the
\* start are negative.
MaxPageCalls == 2

suggestionRow(id, user, suggested) ==
  [id |-> id, user_id |-> user, suggested_user_id |-> suggested,
   mutual_friends |-> 4, created_at |-> 0 - 1]

postRow(id, user, text, at) ==
  [id |-> id, user_id |-> user, text |-> text, created_at |-> at]

commentRow(id, post, user, text, at) ==
  [id |-> id, post_id |-> post, user_id |-> user, text |-> text,
   created_at |-> at]

PagesStore ==
  [EmptyStore EXCEPT
     !.users = SeedUsers,
     !.friendships =
        {friendshipRow(1, 1, 2),
         [friendshipRow(2, 1, 3) EXCEPT !.status = <<"o", "f", "f">>],
         friendshipRow(3, 2, 1)},
     !.friend_suggestions = {suggestionRow(1, 1, 2), suggestionRow(2, 1, 3)},
     !.friend_requests =
        {requestRow(1, 3, 1, 0 - 2), requestRow(2, 1, 2, 0 - 1),
         requestRow(3, 2, 3, 0)},
     !.posts = {postRow(1, 1, <<"h", "i">>, 0 - 2),
                postRow(2, 2, <<"y", "o">>, 0 - 1),
                postRow(3, 3, <<"o", "k">>, 0 - 1)},
     !.comments = {commentRow(1, 1, 2, <<"o", "k">>, 0 - 1)}]

InitPages == InitFrom(PagesStore)

\* limit and offset as the caller writes them
Q(limit, offset) == <<limit, offset>>

\* what the store pages: defaults, a page of one, the second page of one, a
\* limit over the maximum, an offset past the end
StorePageQueries ==
  {Q(Absent, Absent), Q(Given(<<"1">>), Absent), Q(Given(<<"1">>), Given(<<"1">>)),
   Q(Given(<<"1", "0", "1">>), Absent), Q(Given(<<"2">>), Given(<<"5">>))}

\* the same, and a negative offset, a limit of 0
PageQueries ==
  StorePageQueries
    \cup {Q(Absent, Given(<<"-", "1">>)), Q(Given(<<"0">>), Absent)}

FriendFilters ==
  {<<Absent, Absent>>, <<Given(Online), Absent>>,
   <<Absent, Given(<<" ", "B">>)>>, <<Absent, Given(<<"_">>)>>}

RequestTypes == {Absent, Given(Incoming), Given(Outgoing)}

NextPages ==
  \E p \in Procs :
    \/ \E f \in FriendFilters, q \in StorePageQueries :
         /\ calls < MaxPageCalls
         /\ f = <<Absent, Absent>> \/ q = Q(Absent, Absent)
         /\ ListFriends(p, userRowIdentity(1), f[1], f[2], q[1], q[2])
    \/ ListFriends_count(p)
    \/ ListFriends_rows(p)
    \/ \E q \in StorePageQueries :
         calls < MaxPageCalls /\ ListSuggestions(p, userRowIdentity(1), q[1], q[2])
    \/ ListSuggestions_count(p)
    \/ ListSuggestions_rows(p)
    \/ \E type \in RequestTypes, q \in PageQueries :
         /\ calls < MaxPageCalls
         /\ type = Absent \/ q = Q(Absent, Absent)
         /\ ListRequests(p, userRowIdentity(1), type, q[1], q[2])
    \/ ListRequests_incoming(p)
    \/ ListRequests_outgoing(p)
    \/ \E q \in PageQueries :
         calls < MaxPageCalls /\ ListFeed(p, userRowIdentity(1), q[1], q[2])
    \/ ListFeed_count(p)
    \/ ListFeed_posts(p)
    \/ ListFeed_likeCounts(p)
    \/ ListFeed_liked(p)
    \/ ListFeed_comments(p)
    \/ ListFeed_commentLikeCounts(p)
    \/ ListFeed_commentLiked(p)
    \/ calls < MaxPageCalls /\ CreatePost(p, userRowIdentity(2), <<"y", "o">>)
    \/ CreatePost_insert(p)
    \/ CreatePost_select(p)

SpecPages == InitPages /\ [][NextPages]_vars

\* ---------------------------------------------------------------- the feed
\* Three posts, of ann, bob and cat, the last two of one instant; two comments
\* on ann's post, bob's before cat's, and one of ann on bob's post; bob is
\* ann's friend, cat is nobody's; likes of any of ann and bob on ann's post,
\* a like of cat on bob's comment or none. ann and cat read the feed, ann and
\* bob toggle a like.
MaxFeedCalls == 2

InitFeed ==
  \E pl \in SUBSET {1, 2}, cl \in SUBSET {3} :
    InitFrom([EmptyStore EXCEPT
      !.users = SeedUsers,
      !.friendships = {friendshipRow(1, 1, 2)},
      !.posts = {postRow(1, 1, <<"h", "i">>, 0 - 2),
                 postRow(2, 2, <<"y", "o">>, 0 - 1),
                 postRow(3, 3, <<"o", "k">>, 0 - 1)},
      !.comments = {commentRow(1, 1, 2, <<"o", "k">>, 0 - 1),
                    commentRow(2, 1, 3, <<"n", "o">>, 0),
                    commentRow(3, 2, 1, <<"h", "a">>, 0)},
      !.post_likes =
         SetToBag({[post_id |-> 1, user_id |-> u, created_at |-> 0] : u \in pl}),
      !.comment_likes =
         SetToBag({[comment_id |-> 1, user_id |-> u, created_at |-> 0] : u \in cl})])

FeedViewers == {userRowIdentity(1), userRowIdentity(3)}
FeedQueries ==
  {Q(Absent, Absent), Q(Given(<<"2">>), Absent), Q(Given(<<"1">>), Given(<<"2">>))}

NextFeed ==
  \E p \in Procs :
    \/ \E viewer \in FeedViewers, q \in FeedQueries :
         calls < MaxFeedCalls /\ ListFeed(p, viewer, q[1], q[2])
    \/ ListFeed_count(p)
    \/ ListFeed_posts(p)
    \/ ListFeed_likeCounts(p)
    \/ ListFeed_liked(p)
    \/ ListFeed_comments(p)
    \/ ListFeed_commentLikeCounts(p)
    \/ ListFeed_commentLiked(p)
    \/ calls < MaxFeedCalls /\ TogglePostLike(p, userRowIdentity(1), <<"2">>)
    \/ TogglePostLike_findPost(p)
    \/ TogglePostLike_findExisting(p)
    \/ TogglePostLike_mutate(p)
    \/ TogglePostLike_count(p)
    \/ calls < MaxFeedCalls
         /\ ToggleCommentLike(p, userRowIdentity(2), <<"1">>, <<"2">>)
    \/ ToggleCommentLike_findComment(p)
    \/ ToggleCommentLike_findExisting(p)
    \/ ToggleCommentLike_mutate(p)
    \/ ToggleCommentLike_count(p)

SpecFeed == InitFeed /\ [][NextFeed]_vars

\* ---------------------------------------------------------------- the posts
\* ann and bob post texts of 5000 and of 5001 characters, with and without
\* blanks at the end, and blank texts
MaxPostCalls == 2

\* n times the character x, then blanks
longText(n, blanks) ==
  [i \in 1..(n + blanks) |-> IF i <= n THEN "x" ELSE " "]

PostTexts ==
  {longText(MaxPostLength, 0), longText(MaxPostLength + 1, 0),
   longText(MaxPostLength - 1, 2), longText(MaxPostLength - 1, 1),
   longText(0, 2), <<>>}

InitPosts == InitFrom([EmptyStore EXCEPT !.users = SeedUsers])

NextPosts ==
  \E p \in Procs :
    \/ \E user \in LikesCallers, text \in PostTexts :
         calls < MaxPostCalls /\ CreatePost(p, user, text)
    \/ CreatePost_insert(p)
    \/ CreatePost_select(p)

SpecPosts == InitPosts /\ [][NextPosts]_vars

\* ---------------------------------------------------------------- the comments
\* A post of ann with a comment of bob, a post of bob with a comment of ann;
\* likes of any of ann and bob on bob's comment. ann and bob comment on the
\* two posts, on a post that does not exist and on a post id that is no
\* number, with a text, a blank text and a text of 1001 characters; bob
\* toggles his like on comments under their post, under the other post and on
\* a comment that does not exist; ann reads the feed.
MaxCommentCalls == 2

InitComments ==
  \E cl \in SUBSET {1, 2} :
    InitFrom([EmptyStore EXCEPT
      !.users = SeedUsers,
      !.posts = {postRow(1, 1, <<"h", "i">>, 0 - 2),
                 postRow(2, 2, <<"y", "o">>, 0 - 1)},
      !.comments = {commentRow(1, 1, 2, <<"o", "k">>, 0 - 1),
                    commentRow(2, 2, 1, <<"h", "a">>, 0 - 1)},
      !.comment_likes =
         SetToBag({[comment_id |-> 1, user_id |-> u, created_at |-> 0] : u \in cl})])

\* caller, post id and text of the comments asked for
CommentAdds ==
  {<<1, <<"1">>, <<" ", "y", "o">>>>, <<2, <<"2">>, <<"y", "o">>>>,
   <<1, <<"9">>, <<"y", "o">>>>, <<2, <<"x">>, <<"y", "o">>>>,
   <<1, <<"1">>, <<" ">>>>, <<2, <<"1">>, longText(MaxCommentLength + 1, 0)>>}

\* post id and comment id of the likes asked for
CommentLikes ==
  {<<(<<"1">>), (<<"1">>)>>, <<(<<"2">>), (<<"1">>)>>,
   <<(<<"2">>), (<<"2">>)>>, <<(<<"1">>), (<<"9">>)>>}

NextComments ==
  \E p \in Procs :
    \/ \E a \in CommentAdds :
         calls < MaxCommentCalls
           /\ AddComment(p, userRowIdentity(a[1]), a[2], a[3])
    \/ AddComment_findPost(p)
    \/ AddComment_insert(p)
    \/ AddComment_select(p)
    \/ \E l \in CommentLikes :
         calls < MaxCommentCalls
           /\ ToggleCommentLike(p, userRowIdentity(2), l[1], l[2])
    \/ ToggleCommentLike_findComment(p)
    \/ ToggleCommentLike_findExisting(p)
    \/ ToggleCommentLike_mutate(p)
    \/ ToggleCommentLike_count(p)
    \/ calls < MaxCommentCalls /\ ListFeed(p, userRowIdentity(1), Absent, Absent)
    \/ ListFeed_count(p)
    \/ ListFeed_posts(p)
    \/ ListFeed_likeCounts(p)
    \/ ListFeed_liked(p)
    \/ ListFeed_comments(p)
    \/ ListFeed_commentLikeCounts(p)
    \/ ListFeed_commentLiked(p)

SpecComments == InitComments /\ [][NextComments]_vars

\* ---------------------------------------------------------------- the whole API
\* ann, bob and cat; cat is ann's friend and suggested to her, cat has sent bob
\* a request; a post of ann with a comment of bob. Every route is asked for
\* with a token of ann or of bob, with no header and with a token signed with
\* another secret; nan registers, ann logs in.
MaxApiCalls == 2

ApiStore ==
  [EmptyStore EXCEPT
     !.users = SeedUsers,
     !.friendships = {friendshipRow(1, 1, 3)},
     !.friend_suggestions = {suggestionRow(1, 1, 3)},
     !.friend_requests = {requestRow(1, 3, 2, 0 - 1)},
     !.posts = {postRow(1, 1, <<"h", "i">>, 0 - 2)},
     !.comments = {commentRow(1, 1, 2, <<"o", "k">>, 0 - 1)}]

InitApi == InitFrom(ApiStore)

\* Authorization: Bearer <token> with a token the server signed for a user
bearerOf(u) == [present |-> TRUE, s |-> Bearer, token |-> signToken(u, 0)]

ApiHeaders == {bearerOf(userRow(1, Ann)), bearerOf(userRow(2, Bob))}
ApiBadHeaders == {NoHeader, [present |-> TRUE, s |-> Bearer, token |-> ForgedToken]}

ApiWriteOps ==
  {"SendFriendRequest", "CreatePost", "AddComment", "TogglePostLike",
   "ToggleCommentLike"}

ApiTargets == {<<"B", "O", "B">>, Cat, <<"n", "o">>}
ApiTexts == {<<" ", "y", "o">>, <<" ">>}
ApiPostIds == {<<"1">>, <<"9">>}
ApiRegisters ==
  {<<(<<"n", "a", "n">>), Pw>>, <<(<<"A", "N", "N", " ">>), Pw>>,
   <<(<<"n", "a", "n">>), (<<"1", "2", "3">>)>>}
ApiLogins == {<<Ann, Pw>>, <<Ann, (<<"1", "2", "3">>)>>, <<Ann, (<<>>)>>}
ApiComments ==
  {<<(<<"1">>), (<<"y", "o">>)>>, <<(<<"9">>), (<<"y", "o">>)>>,
   <<(<<"1">>), (<<" ">>)>>}

NextApi ==
  \E p \in Procs :
    \/ \E a \in ApiRegisters :
         calls < MaxApiCalls /\ Register(p, a[1], a[2])
    \/ Register_findExisting(p)
    \/ Register_hash(p)
    \/ Register_insert(p)
    \/ Register_select(p)
    \/ \E a \in ApiLogins :
         calls < MaxApiCalls /\ Login(p, a[1], a[2])
    \/ Login_findUser(p)
    \/ Login_compare(p)
    \/ \E op \in ApiWriteOps, header \in ApiBadHeaders :
         calls < MaxApiCalls /\ Unauthenticated(p, op, header)
    \/ \E header \in ApiHeaders, username \in ApiTargets :
         calls < MaxApiCalls
           /\ Authenticated(p, header,
                SendFriendRequest_head(tokenUser(header), username))
    \/ SendFriendRequest_findTarget(p)
    \/ SendFriendRequest_findFriendship(p)
    \/ SendFriendRequest_findRequest(p)
    \/ SendFriendRequest_findReverse(p)
    \/ SendFriendRequest_insert(p)
    \/ \E header \in ApiHeaders, text \in ApiTexts :
         calls < MaxApiCalls
           /\ Authenticated(p, header, CreatePost_head(tokenUser(header), text, now))
    \/ CreatePost_insert(p)
    \/ CreatePost_select(p)
    \/ \E header \in ApiHeaders, a \in ApiComments :
         calls < MaxApiCalls
           /\ Authenticated(p, header,
                AddComment_head(tokenUser(header), a[1], a[2], now))
    \/ AddComment_findPost(p)
    \/ AddComment_insert(p)
    \/ AddComment_select(p)
    \/ \E header \in ApiHeaders, postId \in ApiPostIds :
         calls < MaxApiCalls
           /\ Authenticated(p, header, TogglePostLike_head(tokenUser(header), postId))
    \/ TogglePostLike_findPost(p)
    \/ TogglePostLike_findExisting(p)
    \/ TogglePostLike_mutate(p)
    \/ TogglePostLike_count(p)
    \/ \E header \in ApiHeaders, postId \in ApiPostIds :
         calls < MaxApiCalls
           /\ Authenticated(p, header,
                ToggleCommentLike_head(tokenUser(header), postId, <<"1">>))
    \/ ToggleCommentLike_findComment(p)
    \/ ToggleCommentLike_findExisting(p)
    \/ ToggleCommentLike_mutate(p)
    \/ ToggleCommentLike_count(p)
    \/ \E header \in ApiHeaders :
         calls < MaxApiCalls
           /\ Authenticated(p, header,
                ListFriends_head(tokenUser(header), Absent, Absent, Absent, Absent))
    \/ ListFriends_count(p)
    \/ ListFriends_rows(p)
    \/ \E header \in ApiHeaders :
         calls < MaxApiCalls
           /\ Authenticated(p, header,
                ListSuggestions_head(tokenUser(header), Absent, Absent))
    \/ ListSuggestions_count(p)
    \/ ListSuggestions_rows(p)
    \/ \E header \in ApiHeaders :
         calls < MaxApiCalls
           /\ Authenticated(p, header,
                ListRequests_head(tokenUser(header), Absent, Absent, Absent))
    \/ ListRequests_incoming(p)
    \/ ListRequests_outgoing(p)
    \/ \E header \in ApiHeaders :
         calls < MaxApiCalls
           /\ Authenticated(p, header, ListFeed_head(tokenUser(header), Absent, Absent))
    \/ ListFeed_count(p)
    \/ ListFeed_posts(p)
    \/ ListFeed_likeCounts(p)
    \/ ListFeed_liked(p)
    \/ ListFeed_comments(p)
    \/ ListFeed_commentLikeCounts(p)
    \/ ListFeed_commentLiked(p)

SpecApi == InitApi /\ [][NextApi]_vars

\* ---------------------------------------------------------------- the retries
\* A post of ann with a comment of bob, with or without ann's like on the
\* post and bob's on the comment. ann posts and toggles her like, bob comments
\* and toggles his; a handler may die after its write, and its client then
\* sends the request again.
MaxRetryCalls == 2

InitRetry ==
  \E pl \in SUBSET {1}, cl \in SUBSET {2} :
    InitFrom([EmptyStore EXCEPT
      !.users = SeedUsers,
      !.posts = LikesSeedPosts,
      !.comments = LikesSeedComments,
      !.post_likes = SetToBag({[post_id |-> 1, user_id |-> u, created_at |-> 0] : u \in pl}),
      !.comment_likes = SetToBag({[comment_id |-> 1, user_id |-> u, created_at |-> 0] : u \in cl})])

NextRetry ==
  \E p \in Procs :
    \/ calls < MaxRetryCalls /\ CreatePost(p, userRowIdentity(1), <<"y", "o">>)
    \/ CreatePost_insert(p)
    \/ CreatePost_select(p)
    \/ calls < MaxRetryCalls
         /\ AddComment(p, userRowIdentity(2), <<"1">>, <<"y", "o">>)
    \/ AddComment_findPost(p)
    \/ AddComment_insert(p)
    \/ AddComment_select(p)
    \/ calls < MaxRetryCalls /\ TogglePostLike(p, userRowIdentity(1), <<"1">>)
    \/ TogglePostLike_findPost(p)
    \/ TogglePostLike_findExisting(p)
    \/ TogglePostLike_mutate(p)
    \/ TogglePostLike_count(p)
    \/ calls < MaxRetryCalls
         /\ ToggleCommentLike(p, userRowIdentity(2), <<"1">>, <<"1">>)
    \/ ToggleCommentLike_findComment(p)
    \/ ToggleCommentLike_findExisting(p)
    \/ ToggleCommentLike_mutate(p)
    \/ ToggleCommentLike_count(p)
    \/ Crash(p)
    \/ calls < MaxRetryCalls /\ Retry(p)

SpecRetry == InitRetry /\ [][NextRetry]_vars

\* ---------------------------------------------------------------- claims on the likes
\* slot p holds the response of a request that ran with no other request in flight
Solo(p) == req[p].pc = "done" /\ hist.procs = {p} /\ hist.n = 1

\* the like rows of a table by key, with the number of rows of each key
postLikeRows(likes) ==
  [k \in {<<row.post_id, row.user_id>> : row \in BagToSet(likes)} |->
     SumCopies(likes, {row \in BagToSet(likes) :
                         row.post_id = k[1] /\ row.user_id = k[2]})]

commentLikeRows(likes) ==
  [k \in {<<row.comment_id, row.user_id>> : row \in BagToSet(likes)} |->
     SumCopies(likes, {row \in BagToSet(likes) :
                         row.comment_id = k[1] /\ row.user_id = k[2]})]

\* the number of like rows of an item
RECURSIVE sumOver(_, _)
sumOver(rows, keys) ==
  IF keys = {} THEN 0
  ELSE LET k == CHOOSE x \in keys : TRUE
       IN rows[k] + sumOver(rows, keys \ {k})

likesOfItem(rows, item) == sumOver(rows, {k \in DOMAIN rows : k[1] = item})

\* slot p holds the second of two consecutive successful toggles of one kind by
\* one user on one item, with no request between or beside them
SecondToggle(p, op) ==
  /\ Solo(p)
  /\ req[p].op = op
  /\ hist.prev.valid
  /\ hist.prev.call.op = op
  /\ hist.prev.call.status = 200
  /\ hist.prev.call.user = req[p].user
  /\ hist.prev.call.numericPostId = req[p].numericPostId
  /\ hist.prev.call.numericCommentId = req[p].numericCommentId

\* C1: two consecutive toggles by one user on one post (comment), with nothing
\* in between, leave the like rows as they were before the first, and the
\* second returns the liked value and the likes count from before the first.
C1_DoubleToggleIsIdentity ==
  \A p \in Procs :
    /\ SecondToggle(p, "TogglePostLike") =>
         LET before == postLikeRows(hist.prev.base.post_likes)
             pid == req[p].numericPostId
             uid == req[p].user.id
         IN /\ req[p].status = 200
            /\ postLikeRows(post_likes) = before
            /\ commentLikeRows(comment_likes) = commentLikeRows(hist.prev.base.comment_likes)
            /\ req[p].body.liked = (<<pid, uid>> \in DOMAIN before)
            /\ req[p].body.likes = likesOfItem(before, pid)
    /\ SecondToggle(p, "ToggleCommentLike") =>
         LET before == commentLikeRows(hist.prev.base.comment_likes)
             cid == req[p].numericCommentId
             uid == req[p].user.id
         IN /\ req[p].status = 200
            /\ commentLikeRows(comment_likes) = before
            /\ postLikeRows(post_likes) = postLikeRows(hist.prev.base.post_likes)
            /\ req[p].body.liked = (<<cid, uid>> \in DOMAIN before)
            /\ req[p].body.likes = likesOfItem(before, cid)

\* a second toggle of a post that was liked by the caller and by another user
\* before the first
C1_Witness ==
  \E p \in Procs :
    /\ SecondToggle(p, "TogglePostLike")
    /\ req[p].body.liked
    /\ req[p].body.likes = 2

\* slot p holds the response of a post-like toggle that ran alone on a post
\* that existed when it started
SoloPostToggle(p) ==
  /\ Solo(p)
  /\ req[p].op = "TogglePostLike"
  /\ \E post \in hist.base.posts : post.id = req[p].numericPostId

\* C2: a toggle on an existing post returns liked = true exactly when the
\* caller had no like row (and it inserts one), liked = false exactly when the
\* caller had one (and it deletes it); likes is the count of the post's rows
\* after the mutation, the count before plus or minus one; on a post without
\* likes the first toggle returns {true, 1} and the next {false, 0}.
C2_ToggleResult ==
  \A p \in Procs : SoloPostToggle(p) =>
    LET before == postLikeRows(hist.base.post_likes)
        pid == req[p].numericPostId
        uid == req[p].user.id
        had == <<pid, uid>> \in DOMAIN before
        others == [k \in (DOMAIN before) \ {<<pid, uid>>} |-> before[k]]
    IN /\ req[p].status = 200
       /\ req[p].body.liked = ~had
       /\ postLikeRows(post_likes) =
            IF had THEN others ELSE others @@ (<<pid, uid>> :> 1)
       /\ req[p].body.likes = likesOfItem(postLikeRows(post_likes), pid)
       /\ req[p].body.likes = likesOfItem(before, pid) + (IF had THEN -1 ELSE 1)
       /\ (likesOfItem(before, pid) = 0 => req[p].body = [liked |-> TRUE, likes |-> 1])
       /\ (SecondToggle(p, "TogglePostLike")
             /\ hist.prev.call.body = [liked |-> TRUE, likes |-> 1]
           => req[p].body = [liked |-> FALSE, likes |-> 0])

\* the second toggle of a post that CreatePost made: {true, 1}, then {false, 0}
C2_Witness ==
  \E p \in Procs :
    /\ SoloPostToggle(p)
    /\ SecondToggle(p, "TogglePostLike")
    /\ req[p].numericPostId \notin {post.id : post \in LikesSeedPosts}
    /\ hist.prev.call.body = [liked |-> TRUE, likes |-> 1]
    /\ req[p].body = [liked |-> FALSE, likes |-> 0]

ToggleOps == {"TogglePostLike", "ToggleCommentLike"}

\* C3: when two toggles by one user on one item both pass the existence check
\* before either inserts, the insert the key rejects is treated as benign:
\* no toggle ends with internal_server_error.
C3_DuplicateLikeIsBenign ==
  \A p, q \in Procs :
    /\ p # q
    /\ hist.procs = {p, q} /\ hist.n = 2
    /\ req[p].pc = "done" /\ req[p].op \in ToggleOps
    /\ req[q].op = req[p].op /\ req[q].user = req[p].user
    /\ req[q].numericPostId = req[p].numericPostId
    /\ req[q].numericCommentId = req[p].numericCommentId
    => req[p].status # 500

\* both slots hold the responses of two post-like toggles that overlapped, by
\* two users on one existing post, with no third request beside them
TwoUsersOnePost ==
  /\ hist.procs = Procs
  /\ hist.n = 2
  /\ \A p \in Procs : req[p].pc = "done" /\ req[p].op = "TogglePostLike"
  /\ req[1].user.id # req[2].user.id
  /\ req[1].numericPostId = req[2].numericPostId
  /\ \E post \in hist.base.posts : post.id = req[1].numericPostId

\* the like rows after the user toggled the post, as a sequential toggle leaves them
toggled(rows, pid, uid) ==
  IF <<pid, uid>> \in DOMAIN rows
  THEN [k \in (DOMAIN rows) \ {<<pid, uid>>} |-> rows[k]]
  ELSE rows @@ (<<pid, uid>> :> 1)

\* C4: two overlapping toggles by two users on one post both succeed in every
\* interleaving; only the two callers' rows for that post change, and the like
\* rows end as after the two toggles run one after the other, in either order.
C4_TwoUsersAreSafe ==
  TwoUsersOnePost =>
    LET before == postLikeRows(hist.base.post_likes)
        pid == req[1].numericPostId
    IN /\ \A p \in Procs : req[p].status = 200
       /\ postLikeRows(post_likes) =
            toggled(toggled(before, pid, req[1].user.id), pid, req[2].user.id)
       /\ postLikeRows(post_likes) =
            toggled(toggled(before, pid, req[2].user.id), pid, req[1].user.id)
       /\ \A k \in (DOMAIN before) \cup DOMAIN postLikeRows(post_likes) :
            k \notin {<<pid, req[1].user.id>>, <<pid, req[2].user.id>>} =>
              /\ k \in DOMAIN before
              /\ k \in DOMAIN postLikeRows(post_likes)
              /\ postLikeRows(post_likes)[k] = before[k]
       /\ commentLikeRows(comment_likes) = commentLikeRows(hist.base.comment_likes)

\* two overlapping toggles, one a like and one an unlike, beside a row of a third user
C4_Witness ==
  /\ TwoUsersOnePost
  /\ req[1].body.liked /\ ~req[2].body.liked
  /\ \E row \in BagToSet(post_likes) :
       row.user_id \notin {req[1].user.id, req[2].user.id}

\* C5: in every reachable state there is at most one post-like row per
\* (post, user) and at most one comment-like row per (comment, user).
C5_OneLikeRowPerPair ==
  /\ \A k \in DOMAIN postLikeRows(post_likes) : postLikeRows(post_likes)[k] <= 1
  /\ \A k \in DOMAIN commentLikeRows(comment_likes) :
       commentLikeRows(comment_likes)[k] <= 1

\* two toggles by one user on one post overlapped: the second insert was
\* rejected and the row is there once
C5_Witness ==
  \E p \in Procs :
    /\ req[p].pc = "done" /\ req[p].op = "TogglePostLike" /\ req[p].status = 500
    /\ postLikeRows(post_likes)[<<req[p].numericPostId, req[p].user.id>>] = 1

\* ---------------------------------------------------------------- claims on the friend requests
\* slot p holds the response of a SendFriendRequest that ran alone
SoloSend(p) == Solo(p) /\ req[p].op = "SendFriendRequest"

\* the users of a store that carry a username
usersNamed(store, name) == {u \in store.users : u.username = name}

\* the outcome the rules of C6 give, in their order, in a store
sendOutcomeAfterBlank(store, sender, username) ==
  LET name == toLowerCase(trim(username))
      targets == usersNamed(store, name)
      target == CHOOSE u \in targets : TRUE
  IN IF name = sender.username THEN "validation_error"
     ELSE IF targets = {} THEN "user_not_found"
     ELSE IF \E f \in store.friendships :
                f.user_id = sender.id /\ f.friend_user_id = target.id
     THEN "already_friends"
     ELSE IF \E fr \in store.friend_requests :
                fr.sender_user_id = sender.id /\ fr.receiver_user_id = target.id
     THEN "request_already_sent"
     ELSE IF \E fr \in store.friend_requests :
                fr.sender_user_id = target.id /\ fr.receiver_user_id = sender.id
     THEN "request_exists"
     ELSE "created"

\* the same, after the rule the handler has first: a missing or blank target
sendOutcome(store, sender, username) ==
  IF Len(trim(username)) = 0 THEN "validation_error"
  ELSE sendOutcomeAfterBlank(store, sender, username)

sendStatus(outcome) ==
  IF outcome = "created" THEN 201
  ELSE IF outcome = "user_not_found" THEN 404 ELSE 400

\* the response and the store of slot p are those of the outcome
sendFollows(p, outcome) ==
  LET before == hist.base.friend_requests
      target == CHOOSE u \in usersNamed(hist.base, toLowerCase(trim(req[p].username))) : TRUE
  IN /\ req[p].status = sendStatus(outcome)
     /\ friendships = hist.base.friendships
     /\ IF outcome = "created"
        THEN /\ req[p].body.data.type = "outgoing"
             /\ Cardinality(friend_requests \ before) = 1
             /\ before \subseteq friend_requests
             /\ \A row \in friend_requests \ before :
                  /\ row.sender_user_id = req[p].user.id
                  /\ row.receiver_user_id = target.id
                  /\ row.status = "pending"
                  /\ row.mutual_friends = 0
                  /\ req[p].body.data.id = String(row.id)
        ELSE /\ req[p].body.code = outcome
             /\ friend_requests = before

\* C6 as stated: the outcome follows the rules from the self-request on,
\* whatever the target.
C6_SendOutcomeAsStated ==
  \A p \in Procs : SoloSend(p) =>
    sendFollows(p, sendOutcomeAfterBlank(hist.base, req[p].user, req[p].username))

\* C6 (amended): SendFriendRequest gives validation_error for a target that is
\* missing or blank after trimming, and otherwise decides by the first
\* matching rule: validation_error for the sender's own username,
\* user_not_found, already_friends (sender->target only), request_already_sent,
\* request_exists, and else one pending row sender->target, returned as outgoing.
C6_SendOutcome ==
  \A p \in Procs : SoloSend(p) =>
    sendFollows(p, sendOutcome(hist.base, req[p].user, req[p].username))

\* a request created although the target has the sender among its friends
C6_Witness ==
  \E p \in Procs :
    /\ SoloSend(p)
    /\ req[p].status = 201
    /\ \E f \in friendships :
         f.friend_user_id = req[p].user.id /\ f.user_id = req[p].targetUser.id

\* slot p holds a SendFriendRequest that ran alone right after a successful
\* SendFriendRequest between two users without a friendship
SendAfterSend(p) ==
  /\ SoloSend(p)
  /\ hist.prev.valid
  /\ hist.prev.call.op = "SendFriendRequest"
  /\ hist.prev.call.status = 201
  /\ ~\E f \in hist.prev.base.friendships :
        {f.user_id, f.friend_user_id} =
          {hist.prev.call.user.id, hist.prev.call.targetUser.id}

sameSend(p) ==
  /\ req[p].user = hist.prev.call.user
  /\ toLowerCase(trim(req[p].username)) = hist.prev.call.targetUser.username

reverseSend(p) ==
  /\ req[p].user.id = hist.prev.call.targetUser.id
  /\ toLowerCase(trim(req[p].username)) = hist.prev.call.user.username

\* C7: right after a successful SendFriendRequest(a, b), SendFriendRequest(a, b)
\* fails with request_already_sent and SendFriendRequest(b, a) with
\* request_exists, and neither adds a request or a friendship.
C7_SecondSendFails ==
  \A p \in Procs : SendAfterSend(p) =>
    /\ sameSend(p) => req[p].status = 400 /\ req[p].body.code = "request_already_sent"
    /\ reverseSend(p) => req[p].status = 400 /\ req[p].body.code = "request_exists"
    /\ sameSend(p) \/ reverseSend(p) =>
         /\ friend_requests = hist.base.friend_requests
         /\ friendships = hist.base.friendships

\* bob answers ann's request with his own
C7_Witness ==
  \E p \in Procs :
    SendAfterSend(p) /\ reverseSend(p) /\ req[p].body.code = "request_exists"

C7_WitnessSame ==
  \E p \in Procs :
    SendAfterSend(p) /\ sameSend(p) /\ req[p].body.code = "request_already_sent"

\* the entries of a page
pageEntries(body) == {body.data[i] : i \in 1..Len(body.data)}

\* slot p holds a ListRequests with the default page that ran alone right
\* after a successful SendFriendRequest
ListAfterSend(p) ==
  /\ Solo(p)
  /\ req[p].op = "ListRequests"
  /\ ~req[p].limit.present /\ ~req[p].offset.present
  /\ hist.prev.valid
  /\ hist.prev.call.op = "SendFriendRequest"
  /\ hist.prev.call.status = 201

\* C8: after a successful SendFriendRequest(a, b) the incoming list of b has
\* the request (same id) as incoming with a's username, the outgoing list of a
\* has it as outgoing with b's username; no list shows a request of which the
\* viewer is neither sender nor receiver.
C8_RequestIsListed ==
  \A p \in Procs :
    /\ ListAfterSend(p) /\ req[p].user.id = hist.prev.call.targetUser.id
         /\ req[p].type = Given(Incoming) =>
         \E e \in pageEntries(req[p].body) :
           /\ e.id = hist.prev.call.body.data.id
           /\ e.type = "incoming"
           /\ e.username = hist.prev.call.user.username
    /\ ListAfterSend(p) /\ req[p].user = hist.prev.call.user
         /\ req[p].type = Given(Outgoing) =>
         \E e \in pageEntries(req[p].body) :
           /\ e.id = hist.prev.call.body.data.id
           /\ e.type = "outgoing"
           /\ e.username = hist.prev.call.targetUser.username
    /\ req[p].pc = "done" /\ req[p].op = "ListRequests" =>
         \A e \in pageEntries(req[p].body) :
           \E row \in friend_requests :
             /\ String(row.id) = e.id
             /\ \/ e.type = "incoming" /\ row.receiver_user_id = req[p].user.id
                \/ e.type = "outgoing" /\ row.sender_user_id = req[p].user.id

\* bob lists his incoming requests right after ann's request
C8_Witness ==
  \E p \in Procs :
    /\ ListAfterSend(p)
    /\ req[p].user.id = hist.prev.call.targetUser.id
    /\ req[p].type = Given(Incoming)
    /\ Len(req[p].body.data) >= 1

\* C9: in every reachable state there is at most one friend-request row per
\* ordered (sender, receiver), also when two equal SendFriendRequest calls
\* both pass the checks before either inserts.
C9_OneRequestPerPair ==
  \A r1, r2 \in friend_requests :
    r1.sender_user_id = r2.sender_user_id
      /\ r1.receiver_user_id = r2.receiver_user_id => r1 = r2

\* two equal calls overlapped: both passed the checks, one insert was rejected
C9_Witness ==
  \E p, q \in Procs :
    /\ req[p].op = "SendFriendRequest" /\ req[p].status = 500
    /\ req[q].op = "SendFriendRequest" /\ req[q].status = 201
    /\ req[p].user = req[q].user
    /\ req[p].targetUser = req[q].targetUser

\* ---------------------------------------------------------------- claims on the registrations
\* slot p holds the response of a Register that started when a user that a
\* Register had written under the same name, up to blanks around it and case,
\* was in the store
RegisterOfTakenName(p) ==
  /\ req[p].pc = "done"
  /\ req[p].op = "Register"
  /\ p \in hist.procs
  /\ \E u \in hist.base.users \ AuthSeedUsers :
       toLowerCase(u.username) = toLowerCase(trim(req[p].username))

\* C10 as stated: every later Register of the name fails with username_taken.
C10_NameTakenAsStated ==
  \A p \in Procs : RegisterOfTakenName(p) =>
    /\ req[p].status = 409
    /\ req[p].body.code = "username_taken"
    /\ Solo(p) => users = hist.base.users

\* C10 (amended): after a successful Register of u, every later Register with
\* a password of at least 6 characters and a username equal to u after
\* trimming and lowercasing fails with username_taken (409); with a shorter
\* or missing password it fails with validation_error (400); neither inserts
\* a user row.
C10_NameTaken ==
  \A p \in Procs : RegisterOfTakenName(p) =>
    /\ IF Len(req[p].password) >= MinPasswordLength
       THEN req[p].status = 409 /\ req[p].body.code = "username_taken"
       ELSE req[p].status = 400 /\ req[p].body.code = "validation_error"
    /\ Solo(p) => users = hist.base.users

\* a Register refused for a name that an earlier Register wrote in another spelling
C10_Witness ==
  \E p \in Procs :
    /\ RegisterOfTakenName(p)
    /\ Solo(p)
    /\ req[p].status = 409
    /\ hist.prev.valid
    /\ hist.prev.call.op = "Register"
    /\ hist.prev.call.status = 201
    /\ hist.prev.call.username # req[p].username
    /\ hist.prev.call.body.user.username = toLowerCase(trim(req[p].username))

\* slot p holds the response of a Register
RegisterDone(p) == req[p].pc = "done" /\ req[p].op = "Register"

\* the lowercased names of the users of a store
lowerNames(store) == {toLowerCase(u.username) : u \in store.users}

\* C11: Register fails with validation_error and inserts no user when the
\* trimmed username has fewer than 3 characters or the password has fewer
\* than 6; with a trimmed username of at least 3 characters, a password of at
\* least 6 and no user of that lowercased name, a Register running alone
\* inserts exactly one user, whose username is the trimmed, lowercased input
\* and whose status is online.
C11_RegisterValidation ==
  \A p \in Procs : RegisterDone(p) =>
    LET name == toLowerCase(trim(req[p].username))
    IN IF Len(trim(req[p].username)) < 3 \/ Len(req[p].password) < 6
       THEN /\ req[p].status = 400
            /\ req[p].body.code = "validation_error"
            /\ Solo(p) => Store = hist.base
       ELSE (Solo(p) /\ name \notin lowerNames(hist.base)) =>
            /\ req[p].status = 201
            /\ hist.base.users \subseteq users
            /\ Cardinality(users \ hist.base.users) = 1
            /\ \A u \in users \ hist.base.users :
                 /\ u.username = name
                 /\ u.status = "online"
                 /\ req[p].body.user.username = name
                 /\ req[p].body.user.id = String(u.id)

\* a Register refused for a name of two letters between blanks, after a
\* Register that wrote a name sent in capitals with a blank
C11_Witness ==
  \E p \in Procs :
    /\ RegisterDone(p)
    /\ Solo(p)
    /\ Len(req[p].username) >= 3
    /\ Len(trim(req[p].username)) < 3
    /\ Len(req[p].password) >= 6
    /\ req[p].status = 400
    /\ hist.prev.valid
    /\ hist.prev.call.op = "Register"
    /\ hist.prev.call.status = 201
    /\ hist.prev.call.username # hist.prev.call.body.user.username
    /\ \E u \in users \ AuthSeedUsers :
         u.username = toLowerCase(trim(hist.prev.call.username))

\* slot p holds the response of a Login
LoginDone(p) == req[p].pc = "done" /\ req[p].op = "Login"

\* C12: a Login that finds no user of the name and a Login that finds the
\* user and a password that does not match give the same response: status
\* 401, code invalid_credentials and the same message; two failed logins
\* cannot be told apart from their responses.
C12_LoginFailuresAlike ==
  /\ \A p \in Procs : (LoginDone(p) /\ Solo(p)) =>
       LET named == {u \in hist.base.users :
                       u.username = toLowerCase(trim(req[p].username))}
       IN (named = {} \/ \A u \in named : u.password_hash # hash(req[p].password))
            => /\ req[p].status = 401
               /\ req[p].body.code = "invalid_credentials"
  /\ \A p, q \in Procs :
       (LoginDone(p) /\ LoginDone(q) /\ req[p].status = 401 /\ req[q].status = 401)
         => req[p].body = req[q].body

\* a Login of nobody and a Login of ann with a wrong password, both answered
C12_Witness ==
  \E p, q \in Procs :
    /\ LoginDone(p) /\ LoginDone(q)
    /\ req[p].status = 401 /\ req[q].status = 401
    /\ \A u \in users : u.username # toLowerCase(trim(req[p].username))
    /\ \E u \in users : u.username = toLowerCase(trim(req[q].username))

\* ---------------------------------------------------------------- claims on the gate
\* slot p holds a request for a route behind requireAuth
GatedRequest(p) == req[p].pc # "idle" /\ req[p].op \in GatedOps

\* the header is missing or is not 'Bearer ' followed by a token
malformedHeader(h) == ~h.present \/ h.s # <<"B", "e", "a", "r", "e", "r", " ">>

\* the token is not signed with the server's secret, or seven days have passed
\* since it was issued
failsCheck(token, at) ==
  token.sig # "default-secret-key-change-in-production" \/ at >= token.iat + 7

\* slot p holds nothing but the answer of the gate: no local of a handler is set
answeredByGate(p, code) ==
  req[p] = [IdleReq EXCEPT !.op = req[p].op, !.auth = req[p].auth,
                           !.at = req[p].at, !.pc = "done", !.status = 401,
                           !.body = [code |-> code]]

\* C13: a call of a gated operation whose Authorization header is missing or
\* not of the form 'Bearer <token>' gets unauthorized (401); one whose token
\* fails the signature or expiry check gets invalid_token (401); in both cases
\* the handler does not run, the response holds no store row and the store is
\* not changed.
C13_GateRejects ==
  \A p \in Procs : GatedRequest(p) =>
    LET h == req[p].auth
        refused == malformedHeader(h) \/ failsCheck(h.token, req[p].at)
    IN /\ malformedHeader(h) => answeredByGate(p, "unauthorized")
       /\ (~malformedHeader(h) /\ failsCheck(h.token, req[p].at))
            => answeredByGate(p, "invalid_token")
       /\ (refused /\ Solo(p)) => Store = hist.base

\* slot q holds the answer of a Register or a Login that issued a token
Issued(q) ==
  /\ req[q].pc = "done"
  /\ req[q].op \in {"Register", "Login"}
  /\ req[q].status \in {200, 201}

\* a POST /posts refused for its scheme, with a token that a Login issued and
\* that has not expired
C13_Witness ==
  \E p, q \in Procs :
    /\ Issued(q)
    /\ GatedRequest(p)
    /\ req[p].op = "CreatePost"
    /\ req[p].auth.present
    /\ req[p].auth.s # <<"B", "e", "a", "r", "e", "r", " ">>
    /\ req[p].auth.token = req[q].body.token
    /\ req[p].at < req[q].at + 7
    /\ req[p].status = 401
    /\ Solo(p)

\* a request refused for a token signed with another secret
C13_WitnessForged ==
  \E p \in Procs :
    /\ GatedRequest(p)
    /\ ~malformedHeader(req[p].auth)
    /\ req[p].auth.token.sig # "default-secret-key-change-in-production"
    /\ req[p].body.code = "invalid_token"

\* slot p holds a gated request that came with the token slot q's answer carries
BearsTokenOf(p, q) ==
  /\ Issued(q)
  /\ GatedRequest(p)
  /\ ~malformedHeader(req[p].auth)
  /\ req[p].auth.token = req[q].body.token

\* C14: a token issued by Register or Login at time t for user u is accepted
\* at every time before t + 7 days, where the request runs as u (id and
\* username), and is rejected with invalid_token at every time from t + 7
\* days on, whatever the store holds.
C14_TokenLifetime ==
  \A p, q \in Procs : BearsTokenOf(p, q) =>
    IF req[p].at < req[q].at + 7
    THEN /\ req[p].status # 401
         /\ String(req[p].user.id) = req[q].body.user.id
         /\ req[p].user.username = req[q].body.user.username
    ELSE /\ req[p].pc = "done"
         /\ req[p].status = 401
         /\ req[p].body.code = "invalid_token"

\* a request accepted on the last day of a token that a Login issued a day
\* after the start, in a store that a post has changed since
C14_Witness ==
  \E p, q \in Procs :
    /\ BearsTokenOf(p, q)
    /\ req[q].op = "Login"
    /\ req[q].at > 0
    /\ req[p].at = req[q].at + 6
    /\ req[p].status = 201
    /\ posts # {}

\* a request refused on the seventh day of a token that a Register issued
C14_WitnessExpired ==
  \E p, q \in Procs :
    /\ BearsTokenOf(p, q)
    /\ req[q].op = "Register"
    /\ req[p].at = req[q].at + 7
    /\ req[p].body.code = "invalid_token"

\* ---------------------------------------------------------------- claims on the lists
ListOps == {"ListFriends", "ListSuggestions", "ListRequests", "ListFeed"}

\* slot p holds the page of a list that ran with no other request in flight
SoloList(p) == Solo(p) /\ req[p].op \in ListOps /\ req[p].status = 200

\* the number a caller asks for: a decimal numeral, or the default
askedFor(param, def) == IF param.present THEN parseInt(param.s) ELSE Num(def)

\* limit is an integer from 1 to 100 and offset an integer from 0, or absent
validPage(r) ==
  /\ ~askedFor(r.limit, 20).nan
  /\ askedFor(r.limit, 20).val \in 1..100
  /\ ~askedFor(r.offset, 0).nan
  /\ askedFor(r.offset, 0).val >= 0

minOf(a, b) == IF a < b THEN a ELSE b
maxOf(a, b) == IF a > b THEN a ELSE b

\* the rows a list counts, from the store and the filters of the call
listedRows(r, store) ==
  CASE r.op = "ListFriends" ->
         {f \in store.friendships :
            /\ f.user_id = r.user.id
            /\ (r.statusFilter.present => f.status = r.statusFilter.s)
            /\ (r.search.present =>
                  \E u \in store.users :
                    /\ u.id = f.friend_user_id
                    /\ like(u.username, toLowerCase(trim(r.search.s))))}
    [] r.op = "ListSuggestions" ->
         {fs \in store.friend_suggestions : fs.user_id = r.user.id}
    [] r.op = "ListRequests" ->
         {fr \in store.friend_requests :
            \/ (r.type \in {Absent, Given(Incoming)} /\ fr.receiver_user_id = r.user.id)
            \/ (r.type \in {Absent, Given(Outgoing)} /\ fr.sender_user_id = r.user.id)}
    [] r.op = "ListFeed" -> store.posts

\* C15: for every valid (limit, offset) and every state, each of the four
\* lists returns a page with len(data) = min(limit, max(0, total - offset)),
\* and pagination.total is the number of rows of the state that pass the
\* filters, whatever the limit and the offset.
C15_PageLength ==
  \A p \in Procs : (SoloList(p) /\ validPage(req[p])) =>
    LET limit == askedFor(req[p].limit, 20).val
        offset == askedFor(req[p].offset, 0).val
        total == req[p].body.pagination.total
    IN /\ total = Cardinality(listedRows(req[p], hist.base))
       /\ Len(req[p].body.data) = minOf(limit, maxOf(0, total - offset))

\* the second page of one of ann's two friends, and before it a page of the
\* same list with another limit and the same total
C15_Witness ==
  \E p \in Procs :
    /\ SoloList(p)
    /\ req[p].op = "ListFriends"
    /\ req[p].limit = Given(<<"1">>)
    /\ req[p].offset = Given(<<"1">>)
    /\ Len(req[p].body.data) = 1
    /\ req[p].body.pagination.total = 2
    /\ hist.prev.valid
    /\ hist.prev.call.op = "ListFriends"
    /\ hist.prev.call.limit = Absent
    /\ hist.prev.call.body.pagination.total = 2
    /\ Len(hist.prev.call.body.data) = 2

\* the feed, the suggestions and the requests paged past their end or by one
C15_WitnessOthers ==
  \E p \in Procs :
    /\ SoloList(p)
    /\ validPage(req[p])
    /\ req[p].op \in {"ListFeed", "ListSuggestions", "ListRequests"}
    /\ req[p].offset = Given(<<"5">>)
    /\ req[p].body.pagination.total > 0
    /\ req[p].body.data = <<>>

\* C16: on every list, for every integer limit and offset the caller
\* supplies, the limit reported in pagination.limit is at most 100 and the
\* offset is at least 0.
C16_LimitClamped ==
  \A p \in Procs :
    (req[p].pc = "done" /\ req[p].op \in ListOps /\ req[p].status = 200) =>
      /\ ~req[p].body.pagination.limit.nan
      /\ req[p].body.pagination.limit.val <= 100
      /\ ~req[p].body.pagination.offset.nan
      /\ req[p].body.pagination.offset.val >= 0

\* the entry the list gives for a request row
entryOf(fr, store, type) ==
  LET other == IF type = "incoming" THEN fr.sender_user_id
               ELSE fr.receiver_user_id
      u == CHOOSE u \in store.users : u.id = other
  IN [id |-> String(fr.id), username |-> u.username,
      profileImage |-> u.profile_image, mutualFriends |-> fr.mutual_friends,
      type |-> type, sentAt |-> fr.created_at]

\* the entries of the viewer's requests of the kinds the type asks for
unionOfKinds(r, store) ==
  {entryOf(fr, store, "incoming") :
     fr \in {fr \in store.friend_requests :
               r.type \in {Absent, Given(Incoming)}
               /\ fr.receiver_user_id = r.user.id}}
  \cup
  {entryOf(fr, store, "outgoing") :
     fr \in {fr \in store.friend_requests :
               r.type \in {Absent, Given(Outgoing)}
               /\ fr.sender_user_id = r.user.id}}

\* C17: ListRequests returns the slice [offset, offset + limit) of the
\* viewer's incoming requests (tagged incoming) and outgoing requests (tagged
\* outgoing) of the kinds the type asks for, sorted together by sentAt
\* descending; total is the size of that union; the page is cut after the
\* merge and the sort.
C17_MergedThenPaged ==
  \A p \in Procs :
    (SoloList(p) /\ req[p].op = "ListRequests" /\ validPage(req[p])) =>
      LET limit == askedFor(req[p].limit, 20).val
          offset == askedFor(req[p].offset, 0).val
          union == unionOfKinds(req[p], hist.base)
          merged == req[p].aggregated
          data == req[p].body.data
      IN /\ Len(merged) = Cardinality(union)
         /\ {merged[i] : i \in 1..Len(merged)} = union
         /\ \A i, j \in 1..Len(merged) :
              i < j => merged[i].sentAt >= merged[j].sentAt
         /\ req[p].body.pagination.total = Cardinality(union)
         /\ Len(data) = minOf(limit, maxOf(0, Len(merged) - offset))
         /\ \A i \in 1..Len(data) : data[i] = merged[offset + i]

\* with no type and a limit of 1, ann's page is her own request to bob, the
\* later one, and the total counts cat's request too
C17_Witness ==
  \E p \in Procs :
    /\ SoloList(p)
    /\ req[p].op = "ListRequests"
    /\ req[p].type = Absent
    /\ req[p].limit = Given(<<"1">>)
    /\ req[p].offset = Absent
    /\ req[p].body.pagination.total = 2
    /\ Len(req[p].body.data) = 1
    /\ req[p].body.data[1].type = "outgoing"
    /\ \E fr \in friend_requests :
         /\ fr.receiver_user_id = req[p].user.id
         /\ fr.created_at < req[p].body.data[1].sentAt

\* ---------------------------------------------------------------- claims on the feed
\* slot p holds a feed page that was computed with no other request in flight
SoloFeed(p) == Solo(p) /\ req[p].op = "ListFeed" /\ req[p].status = 200

\* the entries of a page
entriesOf(seq) == {seq[i] : i \in 1..Len(seq)}

\* C18: in a feed page computed with no concurrent write, every post has
\* likes = the number of its like rows, likedByCurrentUser = the viewer has a
\* like row for it, and as comments exactly the comments of that post, in
\* ascending creation order; every comment has likes = the number of its like
\* rows and likedByCurrentUser = the viewer has a like row for it.
C18_FeedCounts ==
  \A p \in Procs : SoloFeed(p) =>
    LET viewer == req[p].user.id
        postLikes == postLikeRows(hist.base.post_likes)
        commentLikes == commentLikeRows(hist.base.comment_likes)
    IN \A e \in entriesOf(req[p].body.data) :
         \E post \in hist.base.posts :
           LET ofPost == {c \in hist.base.comments : c.post_id = post.id}
           IN /\ e.id = String(post.id)
              /\ e.likes = likesOfItem(postLikes, post.id)
              /\ e.likedByCurrentUser = (<<post.id, viewer>> \in DOMAIN postLikes)
              /\ Len(e.comments) = Cardinality(ofPost)
              /\ {c.id : c \in entriesOf(e.comments)} = {String(c.id) : c \in ofPost}
              /\ \A i, j \in 1..Len(e.comments) :
                   i < j => e.comments[i].timestamp <= e.comments[j].timestamp
              /\ \A c \in entriesOf(e.comments) :
                   \E row \in ofPost :
                     /\ c.id = String(row.id)
                     /\ c.text = row.text
                     /\ c.timestamp = row.created_at
                     /\ c.likes = likesOfItem(commentLikes, row.id)
                     /\ c.likedByCurrentUser =
                          (<<row.id, viewer>> \in DOMAIN commentLikes)

\* a page with ann's post: two likes, one of them the viewer's, and its two
\* comments, the earlier first, the first liked by another user only
C18_Witness ==
  \E p \in Procs :
    /\ SoloFeed(p)
    /\ \E e \in entriesOf(req[p].body.data) :
         /\ e.likes = 2
         /\ e.likedByCurrentUser
         /\ Len(e.comments) = 2
         /\ e.comments[1].timestamp < e.comments[2].timestamp
         /\ e.comments[1].likes = 1
         /\ ~e.comments[1].likedByCurrentUser
    /\ \E e \in entriesOf(req[p].body.data) :
         e.likes = 0 /\ ~e.likedByCurrentUser /\ e.comments = <<>>

\* a page without the flags of the viewer
withoutFlags(data) ==
  [i \in 1..Len(data) |->
     [data[i] EXCEPT
        !.likedByCurrentUser = FALSE,
        !.comments = [j \in 1..Len(data[i].comments) |->
                        [data[i].comments[j] EXCEPT !.likedByCurrentUser = FALSE]]]]

\* slot p holds a feed page computed alone, right after another feed page
\* computed alone for the same limit and offset, in the same store
SecondFeed(p) ==
  /\ SoloFeed(p)
  /\ hist.prev.valid
  /\ hist.prev.call.op = "ListFeed"
  /\ hist.prev.call.status = 200
  /\ hist.prev.base = hist.base
  /\ hist.prev.call.limit = req[p].limit
  /\ hist.prev.call.offset = req[p].offset

CreatePostDone(p) == req[p].pc = "done" /\ req[p].op = "CreatePost"

\* C20: CreatePost fails with validation_error and inserts nothing when the
\* text is empty after trimming or the untrimmed text is longer than 5000
\* characters (5001 fails, 5000 succeeds, 5001 with a trimmed form of at most
\* 5000 still fails); a CreatePost that succeeds inserts exactly one post of
\* the caller with the trimmed text, and the response has likes 0,
\* likedByCurrentUser false and no comments.
C20_PostLength ==
  \A p \in Procs : CreatePostDone(p) =>
    IF Len(trim(req[p].text)) = 0 \/ Len(req[p].text) > 5000
    THEN /\ req[p].status = 400
         /\ req[p].body.code = "validation_error"
         /\ Solo(p) => Store = hist.base
    ELSE Solo(p) =>
         /\ req[p].status = 201
         /\ hist.base.posts \subseteq posts
         /\ Cardinality(posts \ hist.base.posts) = 1
         /\ \A post \in posts \ hist.base.posts :
              /\ post.user_id = req[p].user.id
              /\ post.text = trim(req[p].text)
              /\ req[p].body.id = String(post.id)
         /\ req[p].body.text = trim(req[p].text)
         /\ req[p].body.likes = 0
         /\ ~req[p].body.likedByCurrentUser
         /\ req[p].body.comments = <<>>
         /\ [Store EXCEPT !.posts = hist.base.posts] = hist.base

\* a text of 5001 characters with two blanks at its end is refused, right
\* after a text of 5000 characters with a blank at its end was posted
C20_Witness ==
  \E p \in Procs :
    /\ CreatePostDone(p)
    /\ Solo(p)
    /\ Len(req[p].text) = 5001
    /\ Len(trim(req[p].text)) < 5000
    /\ req[p].status = 400
    /\ posts = hist.base.posts
    /\ hist.prev.valid
    /\ hist.prev.call.op = "CreatePost"
    /\ Len(hist.prev.call.text) = 5000
    /\ hist.prev.call.status = 201
    /\ \E post \in posts : Len(post.text) = 4999

\* ---------------------------------------------------------------- claims on the comments
\* slot p holds the response of an AddComment that ran alone and whose text
\* passes the two validations
SoloValidComment(p) ==
  /\ Solo(p)
  /\ req[p].op = "AddComment"
  /\ Len(trim(req[p].text)) > 0
  /\ Len(req[p].text) <= 1000

\* the posts of a store that a post id of the path names
postsNamed(store, postId) ==
  {post \in store.posts : ~parseInt(postId).nan /\ post.id = parseInt(postId).val}

\* slot p holds a feed page computed alone right after an AddComment that ran
\* alone and was answered with 201
FeedAfterComment(p) ==
  /\ SoloFeed(p)
  /\ hist.prev.valid
  /\ hist.prev.call.op = "AddComment"
  /\ hist.prev.call.status = 201

\* C21: an AddComment with a valid text fails with not_found and inserts no
\* comment when its postId names no post; when the post exists it inserts
\* exactly one comment, of that post and of the caller, returns it with likes
\* 0 and likedByCurrentUser false, and the next feed shows the comment under
\* that post and under no other.
C21_AddComment ==
  \A p \in Procs :
    /\ SoloValidComment(p) /\ postsNamed(hist.base, req[p].postId) = {} =>
         /\ req[p].status = 404
         /\ req[p].body.code = "not_found"
         /\ Store = hist.base
    /\ SoloValidComment(p) /\ postsNamed(hist.base, req[p].postId) # {} =>
         /\ req[p].status = 201
         /\ req[p].body.likes = 0
         /\ req[p].body.likedByCurrentUser = FALSE
         /\ \E c \in comments \ hist.base.comments :
              /\ comments = hist.base.comments \cup {c}
              /\ \A old \in hist.base.comments : old.id # c.id
              /\ c.post_id \in {post.id : post \in postsNamed(hist.base, req[p].postId)}
              /\ c.user_id = req[p].user.id
              /\ c.text = trim(req[p].text)
              /\ req[p].body.id = String(c.id)
              /\ req[p].body.username = req[p].user.username
         /\ [Store EXCEPT !.comments = hist.base.comments] = hist.base
    /\ FeedAfterComment(p) =>
         \A e \in entriesOf(req[p].body.data) :
           (\E c \in entriesOf(e.comments) : c.id = hist.prev.call.body.id)
             <=> (e.id = String(hist.prev.call.numericPostId))

\* bob's comment on his own post, then the feed with it under that post
C21_Witness ==
  \E p \in Procs :
    /\ FeedAfterComment(p)
    /\ hist.prev.call.user.id = 2
    /\ Len(req[p].body.data) = 2
    /\ \E e \in entriesOf(req[p].body.data) :
         /\ e.id = <<"2">>
         /\ Len(e.comments) = 2
         /\ \E c \in entriesOf(e.comments) :
              c.id = hist.prev.call.body.id /\ c.username = Bob /\ c.likes = 0

\* a comment on a post that does not exist, refused
C21_WitnessNotFound ==
  \E p \in Procs :
    /\ SoloValidComment(p)
    /\ req[p].postId = <<"9">>
    /\ req[p].status = 404

\* slot p holds the response of a ToggleCommentLike that ran alone
SoloCommentToggle(p) == Solo(p) /\ req[p].op = "ToggleCommentLike"

\* the comments of a store that a post id and a comment id of the path name
commentsNamed(store, postId, commentId) ==
  {c \in store.comments :
     /\ ~parseInt(postId).nan /\ ~parseInt(commentId).nan
     /\ c.id = parseInt(commentId).val
     /\ c.post_id = parseInt(postId).val}

\* C22: ToggleCommentLike fails with not_found and changes no like row when
\* the comment does not exist or belongs to another post than postId, with
\* the same error in both cases; only when the comment belongs to postId does
\* it toggle the caller's like row for that comment, and no other row.
C22_CommentUnderPost ==
  \A p \in Procs : SoloCommentToggle(p) =>
    LET named == commentsNamed(hist.base, req[p].postId, req[p].commentId)
        before == commentLikeRows(hist.base.comment_likes)
        after == commentLikeRows(comment_likes)
    IN /\ named = {} =>
            /\ req[p].status = 404
            /\ req[p].body = errorBody("not_found")
            /\ Store = hist.base
       /\ named # {} =>
            \E c \in named :
              /\ req[p].status = 200
              /\ (<<c.id, req[p].user.id>> \in DOMAIN after)
                   = (<<c.id, req[p].user.id>> \notin DOMAIN before)
              /\ req[p].body.liked = (<<c.id, req[p].user.id>> \in DOMAIN after)
              /\ \A k \in (DOMAIN before \cup DOMAIN after) \ {<<c.id, req[p].user.id>>} :
                   k \in DOMAIN before /\ k \in DOMAIN after /\ before[k] = after[k]
              /\ [Store EXCEPT !.comment_likes = hist.base.comment_likes] = hist.base

\* bob asks for comment 1 under post 2: the comment exists under post 1, the
\* call is refused, and his like row for it stays
C22_Witness ==
  \E p \in Procs :
    /\ SoloCommentToggle(p)
    /\ req[p].postId = <<"2">> /\ req[p].commentId = <<"1">>
    /\ \E c \in hist.base.comments : c.id = 1 /\ c.post_id = 1
    /\ req[p].status = 404
    /\ <<1, 2>> \in DOMAIN commentLikeRows(comment_likes)

\* bob asks for comment 1 under post 1 and his like row is deleted, ann's stays
C22_WitnessToggled ==
  \E p \in Procs :
    /\ SoloCommentToggle(p)
    /\ req[p].postId = <<"1">> /\ req[p].commentId = <<"1">>
    /\ req[p].status = 200 /\ ~req[p].body.liked
    /\ DOMAIN commentLikeRows(comment_likes) = {<<1, 1>>}

\* ---------------------------------------------------------------- claims on the whole API
WriteOps ==
  {"Register", "Login", "SendFriendRequest", "CreatePost", "AddComment",
   "TogglePostLike", "ToggleCommentLike"}

\* slot p holds a refusal of a writing route that ran alone
SoloRefusal(p) ==
  /\ Solo(p)
  /\ req[p].op \in WriteOps
  /\ req[p].status \in {400, 401, 404, 409}

\* C23: a call of Register, Login, SendFriendRequest, CreatePost, AddComment,
\* TogglePostLike or ToggleCommentLike that is answered 400, 401, 404 or 409
\* leaves every table as it was.
C23_RefusalsWriteNothing ==
  \A p \in Procs : SoloRefusal(p) => Store = hist.base

\* bob's request to cat, refused because cat's request to him is there, after
\* a refusal of another route
C23_Witness ==
  \E p \in Procs :
    /\ SoloRefusal(p)
    /\ req[p].op = "SendFriendRequest"
    /\ req[p].body = errorBody("request_exists")
    /\ hist.prev.valid
    /\ hist.prev.call.op \in WriteOps \ {"SendFriendRequest"}
    /\ hist.prev.call.status \in {401, 404, 409}

\* ---------------------------------------------------------------- claims on the friends list
\* term is a substring of s
contains(s, term) ==
  \E i \in 0..Len(s) :
    i + Len(term) <= Len(s) /\ SubSeq(s, i + 1, i + Len(term)) = term

\* the username of the friend of a friendship row
friendName(store, f) == (CHOOSE u \in store.users : u.id = f.friend_user_id).username

\* the friendship rows of the viewer that pass the filters of the call, the
\* search being a case-insensitive substring of the friend's username
friendsAsked(store, r) ==
  {f \in store.friendships :
     /\ f.user_id = r.user.id
     /\ truthy(r.statusFilter) => f.status = r.statusFilter.s
     /\ truthy(r.search) =>
          contains(toLowerCase(friendName(store, f)), toLowerCase(trim(r.search.s)))}

SoloFriends(p) == Solo(p) /\ req[p].op = "ListFriends" /\ req[p].status = 200

\* C24: ListFriends returns only friendship rows of the viewer whose status
\* equals the status asked for and whose friend's username contains the
\* search term, case-insensitively, ordered by the friend's username
\* ascending; total is the number of those rows, before paging.
C24_ListFriends ==
  \A p \in Procs : SoloFriends(p) =>
    LET asked == friendsAsked(hist.base, req[p])
        data == req[p].body.data
    IN /\ \A e \in entriesOf(data) : \E f \in asked : e.id = String(f.id)
       /\ \A i, j \in 1..Len(data) :
            i < j => lessThan(data[i].username, data[j].username)
       /\ req[p].body.pagination.total = Cardinality(asked)

\* the same, for the calls whose search term holds neither % nor _
C24_ListFriendsPlainTerms ==
  \A p \in Procs :
    (SoloFriends(p) /\ \A i \in 1..Len(req[p].search.s) :
                         req[p].search.s[i] \notin {"%", "_"}) =>
      LET asked == friendsAsked(hist.base, req[p])
          data == req[p].body.data
      IN /\ \A e \in entriesOf(data) : \E f \in asked : e.id = String(f.id)
         /\ \A i, j \in 1..Len(data) :
              i < j => lessThan(data[i].username, data[j].username)
         /\ req[p].body.pagination.total = Cardinality(asked)

\* ---------------------------------------------------------------- claims on the reverse requests
\* a store holds a request a->b and a request b->a
mutualRequests(requests) ==
  \E fr, rev \in requests :
    /\ fr.sender_user_id = rev.receiver_user_id
    /\ fr.receiver_user_id = rev.sender_user_id

\* C25: from a store with no request between two users, no reachable state
\* holds both a request a->b and a request b->a, also when
\* SendFriendRequest(a, b) and SendFriendRequest(b, a) run concurrently.
C25_NoMutualRequests == ~mutualRequests(friend_requests)

\* the same, for the calls that ran alone
C25_NoMutualRequestsAlone ==
  \A p \in Procs :
    (SoloSend(p) /\ ~mutualRequests(hist.base.friend_requests)) =>
      ~mutualRequests(friend_requests)

\* ---------------------------------------------------------------- claims on the retries
\* slot p holds the answer to a request that ran alone and that repeats the
\* request before it, which ran alone and died after its write
SoloRetry(p) ==
  /\ Solo(p)
  /\ hist.prev.valid
  /\ hist.prev.call.pc = "crashed"
  /\ hist.prev.call.op = req[p].op
  /\ hist.prev.call.user = req[p].user
  /\ hist.prev.call.postId = req[p].postId
  /\ hist.prev.call.commentId = req[p].commentId
  /\ hist.prev.call.text = req[p].text

\* C26: when CreatePost, AddComment or a toggle dies after its insert or
\* delete and before its response, and the client sends the same call again,
\* the store ends with the rows one successful call leaves: no second post or
\* comment, and the like row as a single toggle leaves it.
C26_RetryIsIdempotent ==
  \A p \in Procs : SoloRetry(p) => Store = hist.base

\* ---------------------------------------------------------------- claims on the friendships
\* C27: no step of any route inserts, deletes or changes a friendship row or
\* a friend-suggestion row, and none changes or removes a request row; a
\* SendFriendRequest that succeeds and one that fails with request_exists
\* create no friendship, and every request row a route creates is pending.
C27_FriendshipsUntouched ==
  [][/\ friendships' = friendships
     /\ friend_suggestions' = friend_suggestions
     /\ friend_requests \subseteq friend_requests'
     /\ \A fr \in friend_requests' \ friend_requests : fr.status = "pending"]_vars

\* ann's request to bob, created, after bob's request to cat was refused
\* because cat's request to him is there; the friendships are the initial ones
C27_Witness ==
  \E p \in Procs :
    /\ SoloSend(p)
    /\ req[p].status = 201
    /\ hist.prev.valid
    /\ hist.prev.call.op = "SendFriendRequest"
    /\ hist.prev.call.body = errorBody("request_exists")
    /\ friendships = ApiStore.friendships
    /\ friend_suggestions = ApiStore.friend_suggestions
    /\ \E fr \in friend_requests \ ApiStore.friend_requests : fr.status = "pending"

\* ---------------------------------------------------------------- claims on the feed under writes
\* slot p holds a feed page, computed alone or not
FeedDone(p) == req[p].pc = "done" /\ req[p].op = "ListFeed" /\ req[p].status = 200

\* likedByCurrentUser = true implies likes >= 1, and likes is at most the
\* number of users, for the posts of a page and for their comments
flagsAgree(data) ==
  \A e \in entriesOf(data) :
    /\ e.likedByCurrentUser => e.likes >= 1
    /\ e.likes <= Cardinality(users)
    /\ \A c \in entriesOf(e.comments) :
         /\ c.likedByCurrentUser => c.likes >= 1
         /\ c.likes <= Cardinality(users)

\* len(data) <= max(0, total - offset)
lengthAgrees(body) ==
  Len(body.data) <= maxOf(0, body.pagination.total - body.pagination.offset.val)

\* C28: every feed page is consistent in itself, also when toggles, CreatePost
\* or AddComment run between its sub-queries: likedByCurrentUser = true
\* implies likes >= 1, likes is at most the number of users, and
\* len(data) <= max(0, total - offset).
C28_FeedConsistent ==
  \A p \in Procs : FeedDone(p) =>
    flagsAgree(req[p].body.data) /\ lengthAgrees(req[p].body)

\* the same, for the pages computed with no other request in flight
C28_FeedConsistentAlone ==
  \A p \in Procs : SoloFeed(p) =>
    flagsAgree(req[p].body.data) /\ lengthAgrees(req[p].body)

\* ---------------------------------------------------------------- claims on the usernames
\* the two slots hold the answers of two Registers of one name, spelled in
\* two ways, that ran at the same time, each past its validations, while the
\* name was free
RegisterRace ==
  /\ hist.procs = Procs /\ hist.n = 2
  /\ \A p \in Procs : req[p].pc = "done" /\ req[p].op = "Register"
  /\ \A p, q \in Procs : req[p].normalized = req[q].normalized
  /\ \E p, q \in Procs : req[p].username # req[q].username
  /\ \A p \in Procs :
       /\ req[p].normalized # <<>>
       /\ \A u \in hist.base.users : toLowerCase(u.username) # req[p].normalized

\* C29: no two user rows have usernames that are equal ignoring case, also
\* when two Registers of spellings of one name run concurrently and both pass
\* the existing-user check; in that race exactly one user row is created.
C29_UniqueUsernames ==
  /\ \A u, v \in users :
       toLowerCase(u.username) = toLowerCase(v.username) => u = v
  /\ RegisterRace =>
       /\ Cardinality(users \ hist.base.users) = 1
       /\ \E p \in Procs : req[p].status = 201
       /\ \E p \in Procs : req[p].status # 201

\* nan and NaN registered at once, both found the name free: one is created,
\* the other is rejected by the unique constraint
C29_Witness ==
  /\ RegisterRace
  /\ \E p, q \in Procs : req[p].status = 201 /\ req[q].status = 500
  /\ Cardinality({u \in users : toLowerCase(u.username) = <<"n", "a", "n">>}) = 1

\* ---------------------------------------------------------------- claims on the attribution
\* slot p runs a route behind requireAuth, with a header whose token verifies,
\* and takes the step
writes(p, op) ==
  /\ req[p].op = op
  /\ InFlight(p)
  /\ req'[p] # req[p]
  /\ requireAuth(req[p].auth, req[p].at).next

\* the rows of a bag-table that a step inserts or deletes
changedRows(before, after) ==
  {row \in BagToSet(before) \cup BagToSet(after) :
     CopiesIn(row, before) # CopiesIn(row, after)}

\* C30: every row a protected route writes carries the identity of the
\* verified token of the request: the author of a post and of a comment, the
\* user of a like row inserted or deleted, the sender of a request; nothing
\* in the path, the query or the body makes a route write a row of another
\* user.
C30_Attributed ==
  [][/\ \A row \in posts' \ posts :
          \E p \in Procs :
            writes(p, "CreatePost") /\ row.user_id = req[p].auth.token.sub
     /\ \A row \in comments' \ comments :
          \E p \in Procs :
            writes(p, "AddComment") /\ row.user_id = req[p].auth.token.sub
     /\ \A row \in changedRows(post_likes, post_likes') :
          \E p \in Procs :
            writes(p, "TogglePostLike") /\ row.user_id = req[p].auth.token.sub
     /\ \A row \in changedRows(comment_likes, comment_likes') :
          \E p \in Procs :
            writes(p, "ToggleCommentLike") /\ row.user_id = req[p].auth.token.sub
     /\ \A row \in friend_requests' \ friend_requests :
          \E p \in Procs :
            /\ writes(p, "SendFriendRequest")
            /\ row.sender_user_id = req[p].auth.token.sub
     /\ posts \subseteq posts' /\ comments \subseteq comments'
     /\ friend_requests \subseteq friend_requests']_vars

\* bob, with his token, has commented on ann's post: the comment is bob's
C30_Witness ==
  \E p \in Procs :
    /\ Solo(p)
    /\ req[p].op = "AddComment"
    /\ req[p].status = 201
    /\ req[p].auth.token.sub = 2
    /\ \E c \in comments \ hist.base.comments :
         /\ c.user_id = 2
         /\ \E post \in posts : post.id = c.post_id /\ post.user_id = 1

\* bob, with his token, has set his like after ann set hers: one row of each
C30_WitnessLike ==
  \E p \in Procs :
    /\ Solo(p)
    /\ req[p].op = "TogglePostLike"
    /\ req[p].status = 200
    /\ req[p].auth.token.sub = 2
    /\ hist.prev.valid
    /\ hist.prev.call.op = "TogglePostLike"
    /\ hist.prev.call.auth.token.sub = 1
    /\ {row.user_id : row \in BagToSet(post_likes)} = {1, 2}

====
